---- MODULE Spec2Model ----
(***************************************************************************)
(* MMM-CloudPhotos node helper: the connection-state / retry controller    *)
(* (src/node_helper.js) and its error classifier, as a state machine.      *)
(*                                                                         *)
(* JavaScript runs one callback at a time; an `await` is the only place    *)
(* where another callback can run.  Every action below is one callback     *)
(* run to its next await (or to its end).  A task that is suspended at an  *)
(* await is an entry of `tasks`.                                           *)
(***************************************************************************)
EXTENDS Integers, Sequences, FiniteSets, TLC

(***************************************************************************)
(* Strings are sequences of one-character strings, so that toLowerCase,    *)
(* toUpperCase and String.prototype.includes are computed, not assumed.    *)
(***************************************************************************)
UpperChars == <<"A","B","C","D","E","F","G","H","I","J","K","L","M","N","O","P","Q","R","S","T","U","V","W","X","Y","Z">>

LowerChars == <<"a","b","c","d","e","f","g","h","i","j","k","l","m","n","o","p","q","r","s","t","u","v","w","x","y","z">>

toLowerChar(c) ==
    IF \E i \in 1..Len(UpperChars) : UpperChars[i] = c
    THEN LowerChars[CHOOSE i \in 1..Len(UpperChars) : UpperChars[i] = c]
    ELSE c

toUpperChar(c) ==
    IF \E i \in 1..Len(LowerChars) : LowerChars[i] = c
    THEN UpperChars[CHOOSE i \in 1..Len(LowerChars) : LowerChars[i] = c]
    ELSE c

toLowerCase(s) == [i \in 1..Len(s) |-> toLowerChar(s[i])]

toUpperCase(s) == [i \in 1..Len(s) |-> toUpperChar(s[i])]

\* String.prototype.includes: pat occurs in s as a contiguous substring.
includes(s, pat) ==
    \E k \in 0..(Len(s) - Len(pat)) :
        \A i \in 1..Len(pat) : s[k + i] = pat[i]

\* Array.prototype.includes on an array of strings.
arrayIncludes(arr, x) == \E i \in 1..Len(arr) : arr[i] = x

permanentPatterns ==
    << <<"i","n","v","a","l","i","d","_","g","r","a","n","t">>,
       <<"p","e","r","m","i","s","s","i","o","n"," ","d","e","n","i","e","d">>,
       <<"f","o","l","d","e","r"," ","n","o","t"," ","f","o","u","n","d">>,
       <<"i","n","v","a","l","i","d"," ","f","o","l","d","e","r">>,
       <<"4","0","3"," ","f","o","r","b","i","d","d","e","n">> >>

networkCodes ==
    << <<"E","C","O","N","N","R","E","S","E","T">>,
       <<"E","T","I","M","E","D","O","U","T">>,
       <<"E","N","O","T","F","O","U","N","D">>,
       <<"E","A","I","_","A","G","A","I","N">>,
       <<"E","C","O","N","N","R","E","F","U","S","E","D">>,
       <<"E","N","E","T","U","N","R","E","A","C","H">>,
       <<"E","H","O","S","T","U","N","R","E","A","C","H">>,
       <<"E","H","O","S","T","D","O","W","N">>,
       <<"E","N","E","T","D","O","W","N">>,
       <<"E","P","I","P","E">> >>

networkMessages ==
    << <<"n","e","t","w","o","r","k">>,
       <<"o","f","f","l","i","n","e">>,
       <<"t","i","m","e","o","u","t">>,
       <<"c","o","n","n","e","c","t","i","o","n">>,
       <<"a","u","t","h","e","n","t","i","c","a","t","i","o","n"," ","f","a","i","l","e","d">>,
       <<"a","u","t","h">>,
       <<"t","o","k","e","n"," ","e","x","p","i","r","e","d">>,
       <<"e","n","o","t","f","o","u","n","d">> >>

\* An error value: nil is a thrown null/undefined; a missing message or
\* code is the empty string (both are falsy in the source).
Error(code, message) == [nil |-> FALSE, code |-> code, message |-> message]

NullError == [nil |-> TRUE, code |-> << >>, message |-> << >>]

\* const message = error.message ? error.message.toLowerCase() : ''
MessageOf(error) == toLowerCase(error.message)

\* const code = error.code ? error.code.toUpperCase() : ''
CodeOf(error) == toUpperCase(error.code)

matchesPermanent(message) ==
    \E i \in 1..Len(permanentPatterns) : includes(message, permanentPatterns[i])

matchesNetwork(code, message) ==
    \/ arrayIncludes(networkCodes, code)
    \/ \E i \in 1..Len(networkMessages) : includes(message, networkMessages[i])

\* A classifier that tests the transient lists before the permanent ones.
isNetworkError_TransientFirst(error) ==
    IF error.nil THEN FALSE
    ELSE matchesNetwork(CodeOf(error), MessageOf(error))

\* A classifier that retries everything that is not a permanent pattern.
isNetworkError_DefaultRetry(error) ==
    IF error.nil THEN FALSE
    ELSE ~matchesPermanent(MessageOf(error))

isNetworkError(error) ==
    IF error.nil THEN FALSE
    ELSE IF matchesPermanent(MessageOf(error)) THEN FALSE
    ELSE matchesNetwork(CodeOf(error), MessageOf(error))

(***************************************************************************)
(* Bounded inputs of the classifier: a message is two fragments joined by  *)
(* ": ", a code is one of Codes.                                           *)
(***************************************************************************)
Fragments ==
    << << >>,
       <<"q","u","o","t","a"," ","e","x","c","e","e","d","e","d">>,
       <<"p","e","r","m","i","s","s","i","o","n">>,
       <<"4","0","3">>,
       <<"I","n","v","a","l","i","d","_","G","r","a","n","t">>,
       <<"P","e","r","m","i","s","s","i","o","n"," ","D","e","n","i","e","d">>,
       <<"f","o","l","d","e","r"," ","n","o","t"," ","f","o","u","n","d">>,
       <<"I","N","V","A","L","I","D"," ","F","O","L","D","E","R">>,
       <<"4","0","3"," ","F","o","r","b","i","d","d","e","n">>,
       <<"N","e","t","w","o","r","k">>,
       <<"d","e","v","i","c","e"," ","i","s"," ","O","F","F","L","I","N","E">>,
       <<"T","i","m","e","o","u","t">>,
       <<"c","o","n","n","e","c","t","i","o","n">>,
       <<"A","u","t","h","e","n","t","i","c","a","t","i","o","n"," ","f","a","i","l","e","d">>,
       <<"U","n","a","u","t","h","o","r","i","z","e","d">>,
       <<"T","o","k","e","n"," ","E","x","p","i","r","e","d">>,
       <<"g","e","t","a","d","d","r","i","n","f","o"," ","E","N","O","T","F","O","U","N","D">> >>

Codes ==
    << << >>,
       <<"e","c","o","n","n","r","e","s","e","t">>,
       <<"E","T","I","M","E","D","O","U","T">>,
       <<"E","N","O","T","F","O","U","N","D">>,
       <<"E","A","I","_","A","G","A","I","N">>,
       <<"E","C","O","N","N","R","E","F","U","S","E","D">>,
       <<"E","N","E","T","U","N","R","E","A","C","H">>,
       <<"E","H","O","S","T","U","N","R","E","A","C","H">>,
       <<"E","H","O","S","T","D","O","W","N">>,
       <<"E","N","E","T","D","O","W","N">>,
       <<"E","P","I","P","E">>,
       <<"E","A","C","C","E","S">>,
       <<"E","R","R","_","B","A","D","_","R","E","Q","U","E","S","T">> >>

Separator == <<":"," ">>

InputError(f1, f2, c) == Error(Codes[c], Fragments[f1] \o Separator \o Fragments[f2])

(***************************************************************************)
(* Configuration values and their validation (node_helper.js 96-144).      *)
(***************************************************************************)
\* JavaScript Infinity: a number above every count the model can reach.
Infinity == 999999

\* An option that is absent from the configuration (undefined).
Undefined == -999999

DEFAULT_BACKOFF_MS == 120000

MIN_BACKOFF_MS == 5000

MAX_BACKOFF_MS == 600000

\* The first retry delay; later delays double it.
BASE_BACKOFF_MS == 5000

validateMaxAuthRetries(value) ==
    IF value = Undefined THEN Infinity
    ELSE IF value = Infinity THEN Infinity
    ELSE IF value < 0 THEN Infinity
    ELSE value

validateMaxBackoffMs(value) ==
    IF value = Undefined THEN DEFAULT_BACKOFF_MS
    ELSE IF value < MIN_BACKOFF_MS THEN DEFAULT_BACKOFF_MS
    ELSE IF value > MAX_BACKOFF_MS THEN MAX_BACKOFF_MS
    ELSE value

(***************************************************************************)
(* Bounds of the model.                                                    *)
(***************************************************************************)
\* A finite maxAuthRetries the configuration may carry.
FiniteRetries == 2

\* Provider initialization is only allowed to fail while the attempt counter
\* is below this (the counter is unbounded when maxAuthRetries is Infinity).
MaxAttempts == 5

\* Retry attempts and periodic scans that may be suspended at the same time.
MaxInFlight == 2

\* Photos already cached when the engine starts (when the cache is not empty).
CachedPhotos == 3

\* A custom maxAuthBackoffMs, in units of BASE_BACKOFF_MS.
CustomBackoffUnits == 4

\* `inits` is not an option: it is the number of INIT messages the host sends.
Configs ==
    { [maxAuthRetries |-> r, maxAuthBackoffMs |-> b, inits |-> 1] :
        r \in {Undefined, 0, FiniteRetries},
        b \in {Undefined, CustomBackoffUnits * BASE_BACKOFF_MS} }

(***************************************************************************)
(* Errors a provider call can reject with in the controller model.         *)
(***************************************************************************)
GoogleAuthPrefix ==
    <<"G","o","o","g","l","e"," ","D","r","i","v","e"," ","a","u","t","h","e","n","t","i","c","a","t","i","o","n"," ","f","a","i","l","e","d",":"," ">>

\* 1: socket timeout (ETIMEDOUT, no telling message)
\* 2: revoked OAuth grant, wrapped as GoogleDriveProvider.initialize wraps it
\* 3: an error no list mentions
ProviderErrors ==
    << Error(Codes[3], Fragments[1]),
       Error(Codes[1], GoogleAuthPrefix \o Fragments[5]),
       Error(Codes[1], Fragments[2]) >>

ErrorIds == 1..Len(ProviderErrors)

NoError == 0

VARIABLES
    cfg,          \* the config object every INIT carries
    cachedCount,  \* database.getCachedPhotoCount()
    nh,           \* the fields of the node helper object
    timeouts,     \* pending setTimeout retry timers: records [id, delay]
    intervals,    \* live setInterval timers and pending first-emission timeouts
    tasks,        \* number of suspended tasks at each await
    healed,       \* TRUE once the provider never fails again
    step,         \* what the last callback did (its notifications, its error)
    hist,         \* history needed to state the claims
    clsIn,        \* classifier input (fragment, fragment, code) under SpecClassify
    clsOut        \* classifier result: "none", "transient" or "permanent"

\* Synchronization with the cloud (SpecSync, SpecSyncLive).
VARIABLES
    provider,       \* which provider class createProvider returned
    cloud,          \* ids of the images now under the monitored containers
    changes,        \* the provider's change feed: the ids touched, in order
    catalog,        \* ids of the rows of the photos table
    changes_token,  \* the setting "changes_token" (Null when absent)
    syncs,          \* the sync runs in progress, with their local variables
    frozen,         \* TRUE once the cloud never changes and nothing fails again
    sstep           \* what the last sync callback did

\* The cache manager (SpecCache) and the eviction query (SpecEvictOrder).
VARIABLES
    rows,           \* photos table: cached_path set?, last_viewed_at
    cm,             \* the fields of the CacheManager object, and failedBatches: how
                    \* many batches in a row failed whole (kept to state the claims)
    ticks,          \* the tick bodies in progress, with their local variables
    ready,          \* photoProvider.initialize() has succeeded
    clock,          \* Date.now(), as far as markPhotoViewed needs it
    cstep,          \* what the last cache callback did
    ordLimit,       \* the limit handed to getOldestCachedPhotos
    ordOut          \* the rows it returned

\* The catalog connection with the display path (SpecCatalog), the upsert
\* (SpecUpsert) and the folder scan (SpecScan) on their own.
VARIABLES
    sortMode,       \* config.sortMode as handed to the PhotoDatabase constructor
    tx,             \* the connection's open transaction: the table as it was at BEGIN
    files,          \* ids whose cache file exists on disk
    jobs,           \* savePhotos calls and sendNextPhoto bodies in progress
    emitted,        \* ids of the DISPLAY_PHOTO notifications sent, in order
    dstep,          \* what the last catalog callback did
    fixedSet,       \* TRUE while no photo was deleted from the catalog
    upIn,           \* a provider result handed to savePhotos twice
    upOut,          \* the table after the first and after the second upsert
    scanIn,         \* container graph, start container and depth of a scan
    scanOut         \* what scanFolder returned

syncVars == <<provider, cloud, changes, catalog, changes_token, syncs, frozen, sstep>>

cacheVars == <<rows, cm, ticks, ready, clock, cstep>>

ordVars == <<ordLimit, ordOut>>

dbVars == <<sortMode, tx, files, jobs, emitted, dstep, fixedSet>>

upVars == <<upIn, upOut>>

scanVars == <<scanIn, scanOut>>

restVars == <<dbVars, upVars, scanVars>>

vars == <<cfg, cachedCount, nh, timeouts, intervals, tasks, healed, step, hist, clsIn, clsOut,
          syncVars, cacheVars, ordVars, restVars>>

ctlVars == <<cfg, cachedCount, nh, timeouts, intervals, tasks, healed, step, hist>>

clsVars == <<clsIn, clsOut>>

\* Everything the retry controller's callbacks never touch.
auxVars == <<clsVars, syncVars, cacheVars, ordVars, restVars>>

Null == 0

(***************************************************************************)
(* Notifications sent to the front end.                                    *)
(***************************************************************************)
Msg(type, status, text, n) == [type |-> type, status |-> status, text |-> text, n |-> n]

ConnectionStatus(status, text, n) == Msg("CONNECTION_STATUS", status, text, n)

UpdateStatus(text) == Msg("UPDATE_STATUS", "", text, 0)

ErrorMsg(text) == Msg("ERROR", "", text, 0)

DisplayPhoto == Msg("DISPLAY_PHOTO", "", "", 0)

Tag(m) ==
    IF m.type = "CONNECTION_STATUS" THEN m.status
    ELSE IF m.type = "UPDATE_STATUS" THEN m.text
    ELSE m.type

Tags(out) == { Tag(out[i]) : i \in 1..Len(out) }

\* Math.ceil(backoffMs / 1000)
CeilSeconds(ms) == (ms + 999) \div 1000

(***************************************************************************)
(* Suspended tasks, by the await they wait at.                             *)
(***************************************************************************)
TaskKinds ==
    { "init_db",          \* initialize: mkdir / database.initialize()    (164, 175)
      "init_provider",    \* initializeProvider: photoProvider.initialize() (255)
      "init_count",       \* initialize: getCachedPhotoCount()               (200)
      "init_scan",        \* performInitialScan called by initialize         (211)
      "init_scan_off",    \* its catch block: getCachedPhotoCount()          (450)
      "retry_provider",   \* retryProviderInitialization: initialize()       (334)
      "retry_count",      \* retryProviderInitialization: getCachedPhotoCount (341)
      "retry_scan",       \* performInitialScan called by the retry          (348)
      "retry_scan_off",   \* its catch block: getCachedPhotoCount()          (450)
      "periodic_scan",    \* periodic scan callback: the sync                (491-519)
      "periodic_scan_off" \* its catch block: getCachedPhotoCount()          (535)
    }

Suspend(t, k) == [t EXCEPT ![k] = @ + 1]

Resume(t, k) == [t EXCEPT ![k] = @ - 1]

Move(t, from, to) == Suspend(Resume(t, from), to)

MayLeave(from) == tasks[from] > 0

InitFamily == {"init_db", "init_provider", "init_count", "init_scan", "init_scan_off"}

RetryFamily == {"retry_provider", "retry_count", "retry_scan", "retry_scan_off"}

PeriodicFamily == {"periodic_scan", "periodic_scan_off"}

RECURSIVE SumOver(_, _)
SumOver(t, ks) ==
    IF ks = {} THEN 0
    ELSE LET k == CHOOSE x \in ks : TRUE IN t[k] + SumOver(t, ks \ {k})

InFlight(family) == SumOver(tasks, family)

\* A new retry attempt or periodic scan may start (a bound of the model).
MayStart == InFlight(RetryFamily \cup PeriodicFamily) < MaxInFlight

(***************************************************************************)
(* scheduleProviderRetry (node_helper.js 273-313), as a function of the    *)
(* helper's fields and the pending timers.  It returns the new fields and  *)
(* timers, the notifications sent, and what it did:                        *)
(*   "noop"    a retry is already scheduled                                *)
(*   "max"     the retry ceiling is reached                                *)
(*   "created" a timer was created, with `delay`                           *)
(***************************************************************************)
\* A retry guard that never refuses.
RetryAlreadyScheduled_Never(s) == FALSE

\* if (this.isRetryScheduled) return;
RetryAlreadyScheduled(s) == s.isRetryScheduled

\* A ceiling test that is off by one.
MaxRetriesReached_OffByOne(s) == s.authRetryAttempts > s.maxAuthRetries

\* if (this.authRetryAttempts >= this.maxAuthRetries)
MaxRetriesReached(s) == s.authRetryAttempts >= s.maxAuthRetries

\* A backoff that is never clamped.
BackoffMs_NoClamp(attempts, maxBackoff) == BASE_BACKOFF_MS * 2 ^ (attempts - 1)

\* Math.min(5000 * Math.pow(2, this.authRetryAttempts - 1), this.maxBackoffMs)
BackoffMs(attempts, maxBackoff) ==
    LET raw == BASE_BACKOFF_MS * 2 ^ (attempts - 1)
    IN  IF raw < maxBackoff THEN raw ELSE maxBackoff

\* clearTimeout(handle): a handle of a timer that already fired clears nothing.
ClearTimeout(tm, handle) == { t \in tm : t.id # handle }

\* The handle setTimeout returns: one no pending timer and no kept handle has.
NewTimerId(tm, handle) ==
    LET used == { t.id : t \in tm } \cup {handle, Null}
    IN  CHOOSE i \in 1..(Cardinality(used) + 1) : i \notin used

scheduleProviderRetry(s, tm) ==
    IF RetryAlreadyScheduled(s)
    THEN [nh |-> s, timeouts |-> tm, out |-> << >>, kind |-> "noop", delay |-> 0]
    ELSE
      LET s1  == [s EXCEPT !.isRetryScheduled = TRUE]
          tm1 == IF s1.authRetryTimer # Null THEN ClearTimeout(tm, s1.authRetryTimer) ELSE tm
          s2  == [s1 EXCEPT !.authRetryTimer = Null]
      IN  IF MaxRetriesReached(s2)
          THEN [nh |-> [s2 EXCEPT !.isRetryScheduled = FALSE],
                timeouts |-> tm1,
                out |-> << UpdateStatus("Offline - max retries exceeded") >>,
                kind |-> "max", delay |-> 0]
          ELSE
            LET s3 == [s2 EXCEPT !.authRetryAttempts = @ + 1]
                backoffMs == BackoffMs(s3.authRetryAttempts, s3.maxBackoffMs)
                id == NewTimerId(tm1, s3.authRetryTimer)
            IN  [nh |-> [s3 EXCEPT !.authRetryTimer = id],
                 timeouts |-> tm1 \cup { [id |-> id, delay |-> backoffMs] },
                 out |-> << ConnectionStatus("offline", "retrying in", CeilSeconds(backoffMs)) >>,
                 kind |-> "created", delay |-> backoffMs]

\* A timer callback that leaves the flag set.
ClearRetryFlag_Forget(s) == s

\* this.isRetryScheduled = false, first thing in the timer callback (310).
ClearRetryFlag(s) == [s EXCEPT !.isRetryScheduled = FALSE]

\* A sync failure handler that keeps the attempt counter.
ResetAttempts_Keep(s) == s

\* this.authRetryAttempts = 0, before the sync failure handlers schedule
\* the retry (457, 542).
ResetAttempts(s) == [s EXCEPT !.authRetryAttempts = 0]

(***************************************************************************)
(* History kept to state the claims; it never influences the program.      *)
(***************************************************************************)
Step(act, err, out, sched, delay) ==
    [act |-> act, err |-> err, out |-> out, sched |-> sched, delay |-> delay]

\* The record of a callback that did not call scheduleProviderRetry.
Plain(act, err, out) == Step(act, err, out, "none", 0)

\* The record of a callback that ended by calling scheduleProviderRetry.
Scheduled(act, err, out, r) == Step(act, err, out \o r.out, r.kind, r.delay)

\* hist after a callback: `reset` says the callback set the attempt counter
\* to zero, `r` is what scheduleProviderRetry returned (or NoSchedule).
NoSchedule == [kind |-> "none", delay |-> 0]

RECURSIVE LastStatus(_, _)
LastStatus(prev, out) ==
    IF out = << >> THEN prev
    ELSE IF out[Len(out)].type = "CONNECTION_STATUS" THEN out[Len(out)].status
    ELSE LastStatus(prev, SubSeq(out, 1, Len(out) - 1))

Remember(h, out, reset, r) ==
    LET d == IF reset THEN << >> ELSE h.delays
    IN  [h EXCEPT !.lastStatus  = LastStatus(h.lastStatus, out),
                  !.offlineSent = @ \/ "offline" \in Tags(out),
                  !.maxed       = @ \/ r.kind = "max",
                  !.delays      = IF r.kind = "created" THEN Append(d, r.delay) ELSE d]

\* The errors of ProviderErrors that isNetworkError calls transient.
NetworkErrorIds == { e \in ErrorIds : isNetworkError(ProviderErrors[e]) }

(***************************************************************************)
(* Initial state: the helper as start() leaves it (node_helper.js 20-46).  *)
(***************************************************************************)
StartFields ==
    [ initialized         |-> FALSE,
      photoProvider       |-> FALSE,
      database            |-> FALSE,
      cacheManager        |-> FALSE,
      scanTimer           |-> FALSE,
      displayTimer        |-> FALSE,
      authRetryTimer      |-> Null,
      authRetryAttempts   |-> 0,
      maxAuthRetries      |-> Infinity,
      maxBackoffMs        |-> DEFAULT_BACKOFF_MS,
      providerInitialized |-> FALSE,
      isRetryScheduled    |-> FALSE,
      closed              |-> FALSE ]  \* database.close() was called on the open catalog

StartHist ==
    [ lastStatus |-> "none", \* status of the last CONNECTION_STATUS sent
      offlineSent |-> FALSE, \* a CONNECTION_STATUS offline was sent
      maxed     |-> FALSE,  \* scheduleProviderRetry found the ceiling reached
      delays    |-> << >>,  \* delays of the retry timers created since the
                            \* attempt counter was last set to zero
      startupFailed |-> FALSE, \* the provider initialization of INIT failed
      inits     |-> 0,      \* INIT messages received
      initsDone |-> 0,      \* INIT handlers that ran to their end
      retries   |-> 0,      \* retry attempts started before any initialization succeeded
      everOk    |-> FALSE,  \* some provider initialization succeeded
      stopped   |-> FALSE,  \* stop() was called
      dbOpened  |-> 0,      \* PhotoDatabase objects created and opened
      cacheManagers |-> 0 ] \* CacheManager objects created, each with its tick timer

CtlInit ==
    /\ cfg \in Configs
    /\ cachedCount = CachedPhotos
    /\ nh = StartFields
    /\ timeouts = {}
    /\ intervals = [scan |-> 0, display |-> 0, first |-> 0]
    /\ tasks = [k \in TaskKinds |-> 0]
    /\ healed = FALSE
    /\ step = Plain("start", NoError, << >>)
    /\ hist = StartHist

ClsIdle == clsIn = <<1, 1, 1>> /\ clsOut = "none"

\* No sync has run: an empty catalog and no stored token.
NoSyncStep == [act |-> "start", run |-> 0, done |-> FALSE, err |-> FALSE]

SyncIdle ==
    /\ provider = "gdrive"
    /\ cloud = {} /\ changes = << >>
    /\ catalog = {} /\ changes_token = Null
    /\ syncs = << >>
    /\ frozen = FALSE
    /\ sstep = NoSyncStep

\* No cache manager has been constructed.
NoCacheStep == [act |-> "start", downloads |-> {}, failed |-> {}, evicted |-> << >>, before |-> 0]

CacheIdle ==
    /\ rows = << >>
    /\ cm = [isRunning |-> FALSE, consecutiveFailures |-> 0, failedBatches |-> 0, provider |-> Null]
    /\ ticks = << >>
    /\ ready = FALSE
    /\ clock = 0
    /\ cstep = NoCacheStep

OrdIdle == ordLimit = 0 /\ ordOut = << >>

NoTx == [open |-> FALSE, snap |-> << >>]

NoDbStep == [act |-> "start", id |-> Null, job |-> << >>]

DbIdle ==
    /\ sortMode = "sequential" /\ tx = NoTx /\ files = {}
    /\ jobs = << >> /\ emitted = << >> /\ dstep = NoDbStep /\ fixedSet = TRUE

UpIdle == upIn = << >> /\ upOut = << >>

ScanIdle == scanIn = << >> /\ scanOut = << >>

RestIdle == DbIdle /\ UpIdle /\ ScanIdle

Init == CtlInit /\ ClsIdle /\ SyncIdle /\ CacheIdle /\ OrdIdle /\ RestIdle

(***************************************************************************)
(* Timers (node_helper.js 469-563).                                        *)
(***************************************************************************)
\* startPeriodicScanning: one setInterval, unless scanTimer is already set.
startPeriodicScanning(s, iv) ==
    IF s.scanTimer
    THEN [nh |-> s, intervals |-> iv]
    ELSE [nh |-> [s EXCEPT !.scanTimer = TRUE], intervals |-> [iv EXCEPT !.scan = @ + 1]]

\* startDisplayTimer: a setInterval and the 2 s first-emission setTimeout.
startDisplayTimer(s, iv) ==
    [nh |-> [s EXCEPT !.displayTimer = TRUE],
     intervals |-> [iv EXCEPT !.display = @ + 1, !.first = @ + 1]]

\* What the caller of performInitialScan does once it has returned:
\* initialize (211-222) or retryProviderInitialization (348-349).
AfterScan(parent, s, iv) ==
    LET a == startPeriodicScanning(s, iv)
    IN  IF parent = "init" THEN startDisplayTimer(a.nh, a.intervals) ELSE a

Done(h, parent) == IF parent = "init" THEN [h EXCEPT !.initsDone = @ + 1] ELSE h

\* sendNextPhoto (568-614) over a cache that does not change; on a closed
\* catalog getNextPhoto throws and the error is only logged.
sendNextPhoto ==
    IF nh.closed THEN << >>
    ELSE IF cachedCount > 0 THEN << DisplayPhoto >>
    ELSE << UpdateStatus("Waiting for photos to cache...") >>

ScanKind(parent) == IF parent = "init" THEN "init_scan" ELSE "retry_scan"

ScanOffKind(parent) == IF parent = "init" THEN "init_scan_off" ELSE "retry_scan_off"

Parents == {"init", "retry"}

(***************************************************************************)
(* INIT: socketNotificationReceived -> initialize (149-232).               *)
(***************************************************************************)
RecvInit ==
    /\ hist.inits < cfg.inits
    /\ IF nh.initialized
       THEN /\ step' = Plain("InitSkipped", NoError, << >>)
            /\ UNCHANGED <<nh, tasks>>
       ELSE /\ nh' = [nh EXCEPT
                        !.maxAuthRetries = validateMaxAuthRetries(cfg.maxAuthRetries),
                        !.maxBackoffMs = validateMaxBackoffMs(cfg.maxAuthBackoffMs)]
            /\ tasks' = Suspend(tasks, "init_db")
            /\ step' = Plain("RecvInit", NoError, << >>)
    /\ hist' = [hist EXCEPT !.inits = @ + 1]
    /\ UNCHANGED <<cfg, cachedCount, timeouts, intervals, healed, auxVars>>

\* The database is open: initializeProvider creates the provider and
\* awaits its initialize() (237-255).
InitDbReady ==
    /\ MayLeave("init_db")
    /\ nh' = [nh EXCEPT !.database = TRUE, !.photoProvider = TRUE]
    /\ tasks' = Move(tasks, "init_db", "init_provider")
    /\ step' = Plain("InitDbReady", NoError, << >>)
    /\ hist' = [hist EXCEPT !.dbOpened = @ + 1]
    /\ UNCHANGED <<cfg, cachedCount, timeouts, intervals, healed, auxVars>>

\* photoProvider.initialize() resolved (256-259); initialize goes on to
\* create the cache manager and awaits getCachedPhotoCount (180-200).
InitProviderOk ==
    /\ MayLeave("init_provider")
    /\ nh' = [nh EXCEPT !.providerInitialized = TRUE, !.authRetryAttempts = 0,
                        !.cacheManager = TRUE, !.initialized = TRUE]
    /\ tasks' = Move(tasks, "init_provider", "init_count")
    /\ step' = Plain("InitProviderOk", NoError, << >>)
    /\ hist' = [Remember(hist, << >>, TRUE, NoSchedule) EXCEPT !.everOk = TRUE,
                                                               !.cacheManagers = @ + 1]
    /\ UNCHANGED <<cfg, cachedCount, timeouts, intervals, healed, auxVars>>

\* photoProvider.initialize() rejected with error e (260-267).
InitProviderFail(e) ==
    /\ ~healed
    /\ nh.authRetryAttempts < MaxAttempts
    /\ MayLeave("init_provider")
    /\ LET r == scheduleProviderRetry([nh EXCEPT !.providerInitialized = FALSE], timeouts)
       IN  /\ nh' = [r.nh EXCEPT !.cacheManager = TRUE, !.initialized = TRUE]
           /\ timeouts' = r.timeouts
           /\ step' = Scheduled("InitProviderFail", e, << >>, r)
           /\ hist' = [Remember(hist, r.out, FALSE, r) EXCEPT !.startupFailed = TRUE,
                                                             !.cacheManagers = @ + 1]
    /\ tasks' = Move(tasks, "init_provider", "init_count")
    /\ UNCHANGED <<cfg, cachedCount, intervals, healed, auxVars>>

\* getCachedPhotoCount() returned (200-222): online -> start the initial
\* scan; offline -> report it and start the display timer.
InitCount ==
    /\ MayLeave("init_count")
    /\ IF nh.providerInitialized
       THEN LET out == << ConnectionStatus("online", "photos available", cachedCount),
                         UpdateStatus("Scanning") >>
            IN  /\ tasks' = Move(tasks, "init_count", "init_scan")
                /\ step' = Plain("InitOnline", NoError, out)
                /\ hist' = Remember(hist, out, FALSE, NoSchedule)
                /\ UNCHANGED <<nh, intervals>>
       ELSE LET out == << ConnectionStatus("offline", "cached photos", cachedCount) >>
                d == startDisplayTimer(nh, intervals)
            IN  /\ tasks' = Resume(tasks, "init_count")
                /\ nh' = d.nh
                /\ intervals' = d.intervals
                /\ step' = Plain("InitOffline", NoError, out)
                /\ hist' = Done(Remember(hist, out, FALSE, NoSchedule), "init")
    /\ UNCHANGED <<cfg, cachedCount, timeouts, healed, auxVars>>

(***************************************************************************)
(* performInitialScan (362-464), called by initialize or by the retry.     *)
(***************************************************************************)
ScanOk(parent) ==
    /\ MayLeave(ScanKind(parent))
    /\ LET out == << ConnectionStatus("online", "photos", 0) >>
           a == AfterScan(parent, nh, intervals)
       IN  /\ nh' = a.nh
           /\ intervals' = a.intervals
           /\ step' = Plain("ScanOk", NoError, out)
           /\ hist' = Done(Remember(hist, out, FALSE, NoSchedule), parent)
    /\ tasks' = Resume(tasks, ScanKind(parent))
    /\ UNCHANGED <<cfg, cachedCount, timeouts, healed, auxVars>>

\* The sync threw e: the catch block up to its await (439-450), or all of
\* it when the error is not a network error (460-462).
ScanFail(parent, e) ==
    /\ ~healed
    /\ MayLeave(ScanKind(parent))
    /\ IF e \in NetworkErrorIds
       THEN /\ nh' = [nh EXCEPT !.providerInitialized = FALSE]
            /\ tasks' = Move(tasks, ScanKind(parent), ScanOffKind(parent))
            /\ step' = Plain("ScanFail", e, << >>)
            /\ UNCHANGED <<intervals, hist>>
       ELSE LET out == << ErrorMsg("Scan failed") >>
                a == AfterScan(parent, nh, intervals)
            IN  /\ nh' = a.nh
                /\ intervals' = a.intervals
                /\ tasks' = Resume(tasks, ScanKind(parent))
                /\ step' = Plain("ScanFail", e, out)
                /\ hist' = Done(Remember(hist, out, FALSE, NoSchedule), parent)
    /\ UNCHANGED <<cfg, cachedCount, timeouts, healed, auxVars>>

\* The rest of the catch block (451-458), then the caller's continuation.
ScanOffline(parent) ==
    /\ MayLeave(ScanOffKind(parent))
    /\ LET out == << ConnectionStatus("offline", "cached photos", cachedCount) >>
           r == scheduleProviderRetry(ResetAttempts(nh), timeouts)
           a == AfterScan(parent, r.nh, intervals)
       IN  /\ nh' = a.nh
           /\ intervals' = a.intervals
           /\ timeouts' = r.timeouts
           /\ step' = Scheduled("ScanOffline", NoError, out, r)
           /\ hist' = Done(Remember(hist, out \o r.out, TRUE, r), parent)
    /\ tasks' = Resume(tasks, ScanOffKind(parent))
    /\ UNCHANGED <<cfg, cachedCount, healed, auxVars>>

(***************************************************************************)
(* The retry timer and retryProviderInitialization (309-357).              *)
(***************************************************************************)
RetryTimerFire ==
    \E t \in timeouts :
        /\ timeouts' = timeouts \ {t}
        /\ IF nh.providerInitialized
           THEN /\ nh' = ClearRetryFlag(nh)
                /\ step' = Plain("RetrySkipped", NoError, << >>)
                /\ UNCHANGED <<tasks, hist>>
           ELSE LET out == << ConnectionStatus("retrying", "attempt", nh.authRetryAttempts) >>
                IN  /\ MayStart
                    /\ nh' = ClearRetryFlag(nh)
                    /\ tasks' = Suspend(tasks, "retry_provider")
                    /\ step' = Plain("RetryStarted", NoError, out)
                    /\ hist' = [Remember(hist, out, FALSE, NoSchedule) EXCEPT
                                  !.retries = IF hist.everOk THEN @ ELSE @ + 1]
        /\ UNCHANGED <<cfg, cachedCount, intervals, healed, auxVars>>

\* photoProvider.initialize() resolved (335-341).
RetryOk ==
    /\ MayLeave("retry_provider")
    /\ nh' = [nh EXCEPT !.providerInitialized = TRUE, !.authRetryAttempts = 0]
    /\ tasks' = Move(tasks, "retry_provider", "retry_count")
    /\ step' = Plain("RetryOk", NoError, << >>)
    /\ hist' = [Remember(hist, << >>, TRUE, NoSchedule) EXCEPT !.everOk = TRUE]
    /\ UNCHANGED <<cfg, cachedCount, timeouts, intervals, healed, auxVars>>

\* photoProvider.initialize() rejected with e (351-356).
RetryFail(e) ==
    /\ ~healed
    /\ nh.authRetryAttempts < MaxAttempts
    /\ MayLeave("retry_provider")
    /\ LET r == scheduleProviderRetry(nh, timeouts)
       IN  /\ nh' = r.nh
           /\ timeouts' = r.timeouts
           /\ step' = Scheduled("RetryFail", e, << >>, r)
           /\ hist' = Remember(hist, r.out, FALSE, r)
    /\ tasks' = Resume(tasks, "retry_provider")
    /\ UNCHANGED <<cfg, cachedCount, intervals, healed, auxVars>>

\* getCachedPhotoCount() returned (341-348): report online, start the scan.
RetryCount ==
    /\ MayLeave("retry_count")
    /\ LET out == << ConnectionStatus("online", "Connected - syncing photos...", 0),
                     UpdateStatus("Scanning") >>
       IN  /\ step' = Plain("RetryOnline", NoError, out)
           /\ hist' = Remember(hist, out, FALSE, NoSchedule)
    /\ tasks' = Move(tasks, "retry_count", "retry_scan")
    /\ UNCHANGED <<cfg, cachedCount, nh, timeouts, intervals, healed, auxVars>>

(***************************************************************************)
(* The periodic scan callback (480-546).                                   *)
(***************************************************************************)
ScanTimerFire ==
    /\ intervals.scan > 0
    /\ IF ~nh.providerInitialized
       THEN /\ step' = Plain("PeriodicSkipped", NoError, << >>)
            /\ UNCHANGED tasks
       ELSE /\ MayStart
            /\ tasks' = Suspend(tasks, "periodic_scan")
            /\ step' = Plain("PeriodicStarted", NoError, << >>)
    /\ UNCHANGED <<cfg, cachedCount, nh, timeouts, intervals, healed, hist, auxVars>>

PeriodicOk ==
    /\ MayLeave("periodic_scan")
    /\ tasks' = Resume(tasks, "periodic_scan")
    /\ step' = Plain("PeriodicOk", NoError, << >>)
    /\ UNCHANGED <<cfg, cachedCount, nh, timeouts, intervals, healed, hist, auxVars>>

\* The sync threw e: the catch block up to its await (524-535); an error
\* that is not a network error is only logged.
PeriodicFail(e) ==
    /\ ~healed
    /\ MayLeave("periodic_scan")
    /\ IF e \in NetworkErrorIds
       THEN /\ nh' = [nh EXCEPT !.providerInitialized = FALSE]
            /\ tasks' = Move(tasks, "periodic_scan", "periodic_scan_off")
       ELSE /\ tasks' = Resume(tasks, "periodic_scan")
            /\ UNCHANGED nh
    /\ step' = Plain("PeriodicFail", e, << >>)
    /\ UNCHANGED <<cfg, cachedCount, timeouts, intervals, healed, hist, auxVars>>

\* The rest of the catch block (536-543).
PeriodicOffline ==
    /\ MayLeave("periodic_scan_off")
    /\ LET out == << ConnectionStatus("offline", "cached photos", cachedCount) >>
           r == scheduleProviderRetry(ResetAttempts(nh), timeouts)
       IN  /\ nh' = r.nh
           /\ timeouts' = r.timeouts
           /\ step' = Scheduled("PeriodicOffline", NoError, out, r)
           /\ hist' = Remember(hist, out \o r.out, TRUE, r)
    /\ tasks' = Resume(tasks, "periodic_scan_off")
    /\ UNCHANGED <<cfg, cachedCount, intervals, healed, auxVars>>

(***************************************************************************)
(* The display timer and the first emission (552-563).                     *)
(***************************************************************************)
DisplayTick ==
    /\ intervals.display > 0
    /\ step' = Plain("DisplayTick", NoError, sendNextPhoto)
    /\ hist' = Remember(hist, sendNextPhoto, FALSE, NoSchedule)
    /\ UNCHANGED <<cfg, cachedCount, nh, timeouts, intervals, tasks, healed, auxVars>>

FirstEmission ==
    /\ intervals.first > 0
    /\ intervals' = [intervals EXCEPT !.first = @ - 1]
    /\ step' = Plain("FirstEmission", NoError, sendNextPhoto)
    /\ hist' = Remember(hist, sendNextPhoto, FALSE, NoSchedule)
    /\ UNCHANGED <<cfg, cachedCount, nh, timeouts, tasks, healed, auxVars>>

(***************************************************************************)
(* The environment: from Heal on, no provider call fails.                  *)
(***************************************************************************)
Heal ==
    /\ ~healed
    /\ healed' = TRUE
    /\ step' = Plain("Heal", NoError, << >>)
    /\ UNCHANGED <<cfg, cachedCount, nh, timeouts, intervals, tasks, hist, auxVars>>

Next ==
    \/ RecvInit
    \/ InitDbReady
    \/ InitProviderOk
    \/ \E e \in ErrorIds : InitProviderFail(e)
    \/ InitCount
    \/ \E p \in Parents : ScanOk(p)
    \/ \E p \in Parents, e \in ErrorIds : ScanFail(p, e)
    \/ \E p \in Parents : ScanOffline(p)
    \/ RetryTimerFire
    \/ RetryOk
    \/ \E e \in ErrorIds : RetryFail(e)
    \/ RetryCount
    \/ ScanTimerFire
    \/ PeriodicOk
    \/ \E e \in ErrorIds : PeriodicFail(e)
    \/ PeriodicOffline
    \/ DisplayTick
    \/ FirstEmission

Spec == Init /\ [][Next]_vars

(***************************************************************************)
(* Recovery: the same program with unbounded retries, an environment that  *)
(* may heal, and the scheduling Node.js gives: a due timer fires, a        *)
(* resolved await resumes its task, and a provider call that can no longer *)
(* fail resolves.                                                          *)
(***************************************************************************)
LiveInit == Init /\ cfg.maxAuthRetries = Undefined

NextLive == Next \/ Heal

Fairness ==
    /\ WF_vars(InitDbReady)
    /\ WF_vars(InitProviderOk)
    /\ WF_vars(InitCount)
    /\ \A p \in Parents : WF_vars(ScanOk(p)) /\ WF_vars(ScanOffline(p))
    /\ WF_vars(RetryTimerFire)
    /\ WF_vars(RetryOk)
    /\ WF_vars(RetryCount)
    /\ WF_vars(PeriodicOk)
    /\ WF_vars(PeriodicOffline)

SpecLive == LiveInit /\ [][NextLive]_vars /\ Fairness

(***************************************************************************)
(* Shutdown: stop() (node_helper.js 683-713) may be called at any moment.  *)
(* It clears the interval and the timeout whose handles the helper holds,  *)
(* stops the cache manager and closes the database; it is synchronous and  *)
(* sets no field a later callback looks at.  From then on every catalog    *)
(* query fails, and getCachedPhotoCount answers a failed query with 0.     *)
(***************************************************************************)
\* clearInterval(handle); handle = null
ClearInterval(n, handle) == IF handle THEN n - 1 ELSE n

Stop ==
    /\ ~hist.stopped
    /\ nh' = [nh EXCEPT !.scanTimer = FALSE, !.displayTimer = FALSE, !.authRetryTimer = Null,
                        !.closed = nh.database]
    /\ intervals' = [intervals EXCEPT !.scan = ClearInterval(@, nh.scanTimer),
                                      !.display = ClearInterval(@, nh.displayTimer)]
    /\ timeouts' = IF nh.authRetryTimer # Null
                   THEN ClearTimeout(timeouts, nh.authRetryTimer) ELSE timeouts
    /\ cachedCount' = IF nh.database THEN 0 ELSE cachedCount
    /\ step' = Plain("Stop", NoError, << >>)
    /\ hist' = [hist EXCEPT !.stopped = TRUE]
    /\ UNCHANGED <<cfg, tasks, healed, auxVars>>

NextStop == Next \/ Stop

SpecStop == Init /\ [][NextStop]_vars

\* The callbacks that start a retry attempt, a periodic sync or an emission.
Starts == {"RetryStarted", "PeriodicStarted", "DisplayTick", "FirstEmission"}

\* C30 as stated: once stop() has returned, no callback starts a retry
\* attempt, a sync or an emission, and no timer is created.
C30_Stated ==
    [][hist.stopped =>
          /\ step' # step => step'.act \notin Starts
          /\ timeouts' \subseteq timeouts
          /\ intervals'.scan <= intervals.scan
          /\ intervals'.display <= intervals.display
          /\ intervals'.first <= intervals.first]_vars

(***************************************************************************)
(* Several INIT messages: the front end sends INIT again when it is        *)
(* reloaded or when a second client connects, and socketNotificationReceived *)
(* starts initialize for each of them without waiting for the one before   *)
(* (48-52).  initialize returns at once only when this.initialized is set, *)
(* and that is set after the awaits of mkdir, database.initialize() and    *)
(* initializeProvider() (152-192).  The options are left at their         *)
(* defaults.                                                               *)
(***************************************************************************)
MaxInits == 2

ReinitInit ==
    /\ cfg = [maxAuthRetries |-> Undefined, maxAuthBackoffMs |-> Undefined, inits |-> MaxInits]
    /\ cachedCount = CachedPhotos
    /\ nh = StartFields
    /\ timeouts = {}
    /\ intervals = [scan |-> 0, display |-> 0, first |-> 0]
    /\ tasks = [k \in TaskKinds |-> 0]
    /\ healed = FALSE
    /\ step = Plain("start", NoError, << >>)
    /\ hist = StartHist
    /\ ClsIdle /\ SyncIdle /\ CacheIdle /\ OrdIdle /\ RestIdle

SpecReinit == ReinitInit /\ [][Next]_vars

\* C40 as stated: whatever INIT messages arrive, one catalog handle is
\* opened at most, and one cache-tick timer, one display timer and one
\* periodic sync timer are created at most.
C40_Stated ==
    /\ hist.dbOpened <= 1
    /\ hist.cacheManagers <= 1
    /\ intervals.display <= 1
    /\ intervals.scan <= 1

(***************************************************************************)
(* An error whose code is not a string.  The Drive client rejects an HTTP  *)
(* error with the status number as `code`, and scanFolder, fullScan and    *)
(* getChanges rethrow it unchanged (GoogleDriveProvider.js 179, 218, 241,  *)
(* 313, 330).  isNetworkError evaluates error.code.toUpperCase() before    *)
(* it looks at any list (646): on a number that call throws a TypeError.  *)
(* In the periodic callback isNetworkError is called inside the catch      *)
(* block (528), so the TypeError leaves the async callback as a rejected   *)
(* promise nobody handles.  What the process does with it is the host's    *)
(* choice: it goes on, or it exits and every timer is gone.                *)
(***************************************************************************)
HttpError ==
    [nil |-> FALSE, code |-> 403, message |-> Fragments[2], typeofCode |-> "number"]

HttpErrorId == Len(ProviderErrors) + 1

\* error.code ? error.code.toUpperCase() : '' throws when the code is truthy
\* and has no toUpperCase
ClassifierThrows(error) ==
    ~error.nil /\ "typeofCode" \in DOMAIN error /\ error.typeofCode = "number"

PeriodicThrow(fatal) ==
    /\ ~healed
    /\ MayLeave("periodic_scan")
    /\ ClassifierThrows(HttpError)
    /\ tasks' = IF fatal THEN [k \in TaskKinds |-> 0] ELSE Resume(tasks, "periodic_scan")
    /\ intervals' = IF fatal THEN [scan |-> 0, display |-> 0, first |-> 0] ELSE intervals
    /\ timeouts' = IF fatal THEN {} ELSE timeouts
    /\ step' = Plain("PeriodicEscaped", HttpErrorId, << >>)
    /\ UNCHANGED <<cfg, cachedCount, nh, healed, hist, auxVars>>

NextThrow == Next \/ \E fatal \in BOOLEAN : PeriodicThrow(fatal)

SpecThrow == Init /\ [][NextThrow]_vars

\* C35 as stated: no error leaves the callback it was raised in, no
\* callback's end takes a recurring timer away, and the cache tick's
\* running flag is set only while a tick body is in progress.
C35_Stated ==
    /\ [](step.act # "PeriodicEscaped")
    /\ [][/\ intervals'.scan >= intervals.scan
          /\ intervals'.display >= intervals.display]_vars
    /\ [](ticks = << >> => ~cm.isRunning)

(***************************************************************************)
(* The classifier alone: isNetworkError applied to every bounded input.    *)
(***************************************************************************)
ClsInit ==
    /\ clsIn \in (1..Len(Fragments)) \X (1..Len(Fragments)) \X (1..Len(Codes))
    /\ clsOut = "none"
    /\ cfg = [maxAuthRetries |-> Undefined, maxAuthBackoffMs |-> Undefined, inits |-> 0]
    /\ cachedCount = CachedPhotos
    /\ nh = StartFields
    /\ timeouts = {}
    /\ intervals = [scan |-> 0, display |-> 0, first |-> 0]
    /\ tasks = [k \in TaskKinds |-> 0]
    /\ healed = FALSE
    /\ step = Plain("start", NoError, << >>)
    /\ hist = StartHist
    /\ SyncIdle /\ CacheIdle /\ OrdIdle /\ RestIdle

Classify ==
    /\ clsOut = "none"
    /\ clsOut' = IF isNetworkError(InputError(clsIn[1], clsIn[2], clsIn[3]))
                 THEN "transient" ELSE "permanent"
    /\ UNCHANGED <<clsIn, ctlVars, syncVars, cacheVars, ordVars, restVars>>

ClsNext == Classify

SpecClassify == ClsInit /\ [][ClsNext]_vars

(***************************************************************************)
(* What the claims are stated over.  The sets below are read off the       *)
(* claims' own lists, by hand, not computed by the classifier.             *)
(***************************************************************************)
\* Fragments that hold a permanent substring, in some letter case.
PermanentFragments == 5..9

\* Fragments that hold a transient substring, in some letter case.
TransientFragments == 10..17

\* Codes that are one of the ten OS codes, in some letter case.
TransientCodes == 2..11

\* ProviderErrors by what the lists say of them.
TransientErrorIds == {1}

PermanentErrorIds == {2}

UnknownErrorIds == {3}

SyncFailures == {"ScanFail", "PeriodicFail"}

SyncOfflineSteps == {"ScanOffline", "PeriodicOffline"}

MaxRetriesText == "Offline - max retries exceeded"

OfflineCached == ConnectionStatus("offline", "cached photos", cachedCount)

Sent(m) == \E i \in 1..Len(step.out) : step.out[i] = m

DisplayRunning == nh.displayTimer /\ intervals.display >= 1

\* The delay the claims give the k-th consecutive retry.
ClaimedDelay(k, maxBackoff) ==
    LET d == 5000 * 2 ^ (k - 1) IN IF d > maxBackoff THEN maxBackoff ELSE d

(***************************************************************************)
(* C1                                                                      *)
(***************************************************************************)
\* C1 as stated: when the provider's initialization fails during INIT, the
\* cache manager is created, CONNECTION_STATUS offline is emitted and a
\* retry is scheduled 5 s later; and once INIT has run to its end the
\* display timer is running.
C1_Stated ==
    /\ step.act = "InitProviderFail" =>
          /\ nh.cacheManager
          /\ "offline" \in Tags(step.out)
          /\ \E t \in timeouts : t.delay = 5000
    /\ (hist.startupFailed /\ hist.initsDone >= 1) => DisplayRunning

\* C1 amended: the same, except that with the retry ceiling already reached
\* (maxAuthRetries = 0) the failure sends UPDATE_STATUS "Offline - max
\* retries exceeded" and schedules nothing; CONNECTION_STATUS offline is
\* then sent when INIT ends.
C1_OfflineBoot ==
    /\ step.act = "InitProviderFail" =>
          /\ nh.cacheManager /\ nh.initialized /\ ~nh.providerInitialized
          /\ IF nh.maxAuthRetries = 0
             THEN /\ step.sched = "max"
                  /\ MaxRetriesText \in Tags(step.out)
                  /\ timeouts = {}
             ELSE /\ step.sched = "created"
                  /\ "offline" \in Tags(step.out)
                  /\ \E t \in timeouts : timeouts = {t} /\ t.delay = 5000
    /\ (hist.startupFailed /\ hist.initsDone >= 1) =>
          /\ nh.cacheManager
          /\ DisplayRunning
          /\ hist.offlineSent
    /\ step.act = "InitOffline" => Sent(OfflineCached)

\* An INIT whose provider initialization failed has ended, a retry is
\* pending and the display timer emits a cached photo.
C1_Witness ==
    /\ hist.startupFailed /\ hist.initsDone >= 1
    /\ \E t \in timeouts : t.delay = 5000
    /\ step.act \in {"DisplayTick", "FirstEmission"} /\ Sent(DisplayPhoto)

(***************************************************************************)
(* C2                                                                      *)
(***************************************************************************)
\* C2: at most one retry timer is pending in every state, and a callback
\* that calls scheduleProviderRetry while a retry is scheduled creates no
\* timer, clears none and leaves the attempt counter as the call found it
\* (the sync failure handlers set it to zero before the call).
C2_SingleRetry ==
    /\ [](Cardinality(timeouts) <= 1)
    /\ [][ (nh.isRetryScheduled /\ step'.sched # "none") =>
              /\ timeouts' = timeouts
              /\ nh'.authRetryTimer = nh.authRetryTimer
              /\ nh'.isRetryScheduled
              /\ step'.out = IF step'.act \in SyncOfflineSteps
                              THEN << OfflineCached >> ELSE << >>
              /\ nh'.authRetryAttempts =
                    IF step'.act \in SyncOfflineSteps THEN 0 ELSE nh.authRetryAttempts
          ]_vars

\* scheduleProviderRetry was called while a retry was pending.
C2_Witness == step.sched = "noop" /\ Cardinality(timeouts) = 1

(***************************************************************************)
(* C3                                                                      *)
(***************************************************************************)
\* C3: the k-th retry timer created since the attempt counter was last
\* reset has the delay min(5000 * 2^(k-1), maxBackoffMs); no delay exceeds
\* maxBackoffMs, and after a clamped delay every later one is the clamp.
C3_Backoff ==
    /\ \A k \in 1..Len(hist.delays) :
          /\ hist.delays[k] = ClaimedDelay(k, nh.maxBackoffMs)
          /\ hist.delays[k] <= nh.maxBackoffMs
          /\ (k > 1 /\ hist.delays[k - 1] = nh.maxBackoffMs) =>
                hist.delays[k] = nh.maxBackoffMs
    /\ \A t \in timeouts : t.delay <= nh.maxBackoffMs
    /\ step.sched = "created" =>
          /\ Len(hist.delays) = nh.authRetryAttempts
          /\ step.delay = hist.delays[Len(hist.delays)]

\* A run of retries that reached the clamp and stayed there.
C3_Witness ==
    /\ step.sched = "created"
    /\ Len(hist.delays) >= 2
    /\ hist.delays[Len(hist.delays)] = nh.maxBackoffMs
    /\ hist.delays[Len(hist.delays) - 1] = nh.maxBackoffMs
    /\ hist.delays[1] = 5000

(***************************************************************************)
(* C4                                                                      *)
(***************************************************************************)
AllInitsFailed == hist.inits >= 1 /\ ~hist.everOk

FiniteCeiling == nh.maxAuthRetries # Infinity

\* No provider initialization is in progress or still to come.
NoAttemptPending ==
    tasks["init_db"] = 0 /\ tasks["init_provider"] = 0 /\ tasks["retry_provider"] = 0

\* C4: with a finite maxAuthRetries N and every provider initialization
\* failing, at most N retry attempts are started; when the ceiling is found
\* reached "Offline - max retries exceeded" is sent; once N retries have
\* failed no retry timer is pending or ever created again; and the display
\* timer keeps running and emitting cached photos.
C4_Ceiling ==
    (AllInitsFailed /\ FiniteCeiling) =>
       /\ hist.retries <= nh.maxAuthRetries
       /\ step.sched = "max" =>
             (MaxRetriesText \in Tags(step.out) /\ hist.retries = nh.maxAuthRetries)
       /\ (hist.retries = nh.maxAuthRetries /\ NoAttemptPending) =>
             /\ hist.maxed
             /\ timeouts = {} /\ ~nh.isRetryScheduled
             /\ nh.authRetryAttempts = nh.maxAuthRetries
       /\ hist.maxed => (timeouts = {} /\ NoAttemptPending)
       /\ hist.initsDone >= 1 => DisplayRunning
       /\ step.act = "DisplayTick" => Sent(DisplayPhoto)

\* The ceiling of two retries was reached and a photo is emitted afterwards.
C4_Witness ==
    /\ AllInitsFailed /\ nh.maxAuthRetries = FiniteRetries
    /\ hist.maxed /\ hist.retries = FiniteRetries
    /\ step.act = "DisplayTick" /\ Sent(DisplayPhoto)

(***************************************************************************)
(* C5                                                                      *)
(***************************************************************************)
\* C5 as stated: a permanent error raised by provider initialization or by
\* a sync sends ERROR and schedules no retry.
C5_Stated ==
    (step.err \in PermanentErrorIds
       /\ step.act \in {"InitProviderFail", "RetryFail"} \cup SyncFailures) =>
          /\ "ERROR" \in Tags(step.out)
          /\ step.sched # "created"
          /\ timeouts = {}

(***************************************************************************)
(* C6                                                                      *)
(***************************************************************************)
ClsPermanent == clsIn[1] \in PermanentFragments \/ clsIn[2] \in PermanentFragments

ClsTransient ==
    \/ clsIn[3] \in TransientCodes
    \/ clsIn[1] \in TransientFragments
    \/ clsIn[2] \in TransientFragments

\* C6: an error whose message holds a permanent substring (in any letter
\* case) is classified permanent whatever else it carries; any other error
\* whose code is one of the ten OS codes or whose message holds a transient
\* substring is classified transient.
C6_Classification ==
    clsOut # "none" =>
       /\ ClsPermanent => clsOut = "permanent"
       /\ (~ClsPermanent /\ ClsTransient) => clsOut = "transient"

\* "Invalid_Grant: Timeout" with code ETIMEDOUT was classified permanent.
C6_Witness == clsIn = <<5, 12, 3>> /\ clsOut = "permanent"

C8_Stated ==
    /\ (step.act \in SyncFailures /\ step.err \in TransientErrorIds) =>
          ~nh.providerInitialized
    /\ step.act \in SyncOfflineSteps =>
          /\ Sent(OfflineCached)
          /\ step.sched = "created" /\ step.delay = 5000

\* C8 amended: the handler sends the offline status, sets the attempt
\* counter to zero and calls scheduleProviderRetry; that creates a retry
\* timer with the 5 s delay unless a retry is already pending (nothing is
\* scheduled, the counter stays zero) or maxAuthRetries is 0 ("Offline -
\* max retries exceeded" is sent instead); the first retry timer created
\* after the failure always has the 5 s delay.
C8_SyncFailure ==
    /\ (step.act \in SyncFailures /\ step.err \in TransientErrorIds) =>
          ~nh.providerInitialized
    /\ step.act \in SyncOfflineSteps =>
          /\ step.out[1] = OfflineCached
          /\ step.sched \in {"created", "noop", "max"}
          /\ step.sched = "created" =>
                /\ step.delay = 5000 /\ nh.authRetryAttempts = 1
                /\ timeouts = {[id |-> nh.authRetryTimer, delay |-> 5000]}
          /\ step.sched = "noop" =>
                /\ nh.authRetryAttempts = 0 /\ Len(step.out) = 1
                /\ nh.isRetryScheduled /\ Cardinality(timeouts) = 1
          /\ step.sched = "max" =>
                /\ nh.authRetryAttempts = 0 /\ nh.maxAuthRetries = 0
                /\ timeouts = {} /\ MaxRetriesText \in Tags(step.out)
    /\ hist.delays # << >> => hist.delays[1] = 5000

\* A periodic sync failed after the engine had come back online from two
\* failed retries, and its handler scheduled the 5 s retry.
C8_Witness ==
    /\ step.act = "PeriodicOffline" /\ step.sched = "created" /\ step.delay = 5000
    /\ hist.retries >= 2 /\ hist.everOk

(***************************************************************************)
(* C9                                                                      *)
(***************************************************************************)
\* C9 as stated: after every successful provider initialization and after
\* every successful sync the attempt counter is zero.
C9_Stated ==
    step.act \in {"InitProviderOk", "RetryOk", "ScanOk", "PeriodicOk"} =>
        nh.authRetryAttempts = 0

(***************************************************************************)
(* C10                                                                     *)
(***************************************************************************)
\* The provider is offline: initialize() has failed, or a sync failed with
\* a transient error, and no initialization has succeeded since.
Offline == nh.initialized /\ ~nh.providerInitialized

Online ==
    /\ nh.providerInitialized
    /\ hist.lastStatus = "online"
    /\ nh.scanTimer /\ intervals.scan >= 1

\* A retry is pending (its timer), in progress (its initialize() call), or
\* about to be scheduled (a sync failure handler at its await).
RetryUnderWay ==
    \/ timeouts # {}
    \/ tasks["retry_provider"] > 0
    \/ tasks["init_scan_off"] + tasks["retry_scan_off"] + tasks["periodic_scan_off"] > 0

PhotoIds == 2

MaxChanges == 3

MaxSyncs == 2

Ids == 1..PhotoIds

Providers == {"gdrive", "s3"}

\* typeof this.photoProvider.fullScan === 'function': GoogleDriveProvider
\* defines fullScan (187), S3Provider does not.
hasFullScan(p) == p = "gdrive"

\* getStartPageToken: the feed's next position (GoogleDriveProvider 322-332),
\* null for S3 (S3Provider 358-361).
getStartPageToken(p, feed) == IF p = "gdrive" THEN Len(feed) + 1 ELSE Null

\* getChanges(token): every file touched since the token, by its state now:
\* removed or trashed goes to deletedIds, a monitored image to photos
\* (GoogleDriveProvider 251-315); S3 returns nothing (S3Provider 348-352).
getChanges(p, token, cl, feed) ==
    IF p = "gdrive"
    THEN LET touched == { feed[k] : k \in { j \in 1..Len(feed) : j >= token } }
         IN  [photos     |-> touched \cap cl,
              deletedIds |-> touched \ cl,
              nextToken  |-> Len(feed) + 1]
    ELSE [photos |-> {}, deletedIds |-> {}, nextToken |-> Null]

\* if (token && typeof this.photoProvider.getChanges === 'function'):
\* both provider classes define getChanges.
UsesDelta(token) == token # Null

\* savePhotos: INSERT ... ON CONFLICT(id) DO UPDATE, in one transaction
\* (PhotoDatabase 148-201).
savePhotos(cat, photos) == cat \cup photos

\* deletePhoto: DELETE FROM photos WHERE id = ? (PhotoDatabase 203-213).
deletePhoto(cat, id) == cat \ {id}

\* A sync run: its kind, the await it is suspended at and its locals.
NewRun(kind) ==
    [ kind       |-> kind,       \* "initial" or "periodic"
      pc         |-> "token",
      path       |-> "none",     \* "delta", "full", or "none": nothing scanned
      token      |-> Null,       \* const token
      photos     |-> {},         \* let photos
      deletedIds |-> {},         \* changes.deletedIds
      todo       |-> {},         \* deletedIds the loop has not reached yet
      nextToken  |-> Null,       \* changes.nextToken / startToken
      prev       |-> catalog ]   \* the catalog when the run began

RemoveAt(seq, i) == SubSeq(seq, 1, i - 1) \o SubSeq(seq, i + 1, Len(seq))

\* Where a run goes after the token has been dealt with, after the
\* deletions, and after getChanges has returned.
PcAfterToken(r) == IF r.photos # {} THEN "savePhotos" ELSE "done"

PcAfterDeletes(r) == IF r.nextToken # Null THEN "saveToken" ELSE PcAfterToken(r)

PcAfterChanges(r) == IF r.deletedIds # {} THEN "delete" ELSE PcAfterDeletes(r)

\* Only the callback that ends a run is remembered.
Working == [act |-> "step", run |-> 0, done |-> FALSE, err |-> FALSE]

\* Run i goes on as r, suspended at pc, or ends successfully.
Continue(i, r, pc, act) ==
    /\ syncs' = IF pc = "done" THEN RemoveAt(syncs, i)
                ELSE [syncs EXCEPT ![i] = [r EXCEPT !.pc = pc]]
    /\ sstep' = IF pc = "done"
                THEN [act |-> act, run |-> r, done |-> TRUE, err |-> FALSE]
                ELSE Working

At(i, pc) == i \in 1..Len(syncs) /\ syncs[i].pc = pc

\* performInitialScan or a periodic callback starts and awaits getSetting.
StartSync(kind) ==
    /\ Len(syncs) < MaxSyncs
    /\ syncs' = Append(syncs, NewRun(kind))
    /\ sstep' = Working
    /\ UNCHANGED <<provider, cloud, changes, catalog, changes_token, frozen>>
    /\ UNCHANGED <<ctlVars, clsVars, cacheVars, ordVars, restVars>>

\* getSetting("changes_token") has answered: the path is chosen (373, 494).
\* The periodic callback has no scanFolder fallback (510-515).
ReadToken(i) ==
    /\ At(i, "token")
    /\ LET r  == [syncs[i] EXCEPT !.token = changes_token]
           pc == IF UsesDelta(changes_token) THEN "changes"
                 ELSE IF hasFullScan(provider) THEN "fullScan"
                 ELSE IF r.kind = "initial" THEN "scanFolder"
                 ELSE "done"
       IN  Continue(i, r, pc, "ReadToken")
    /\ UNCHANGED <<provider, cloud, changes, catalog, changes_token, frozen>>
    /\ UNCHANGED <<ctlVars, clsVars, cacheVars, ordVars, restVars>>

\* getChanges(token) has answered.
ChangesReturn(i) ==
    /\ At(i, "changes")
    /\ LET c == getChanges(provider, syncs[i].token, cloud, changes)
           r == [syncs[i] EXCEPT !.path = "delta", !.photos = c.photos,
                                 !.deletedIds = c.deletedIds, !.todo = c.deletedIds,
                                 !.nextToken = c.nextToken]
       IN  Continue(i, r, PcAfterChanges(r), "ChangesReturn")
    /\ UNCHANGED <<provider, cloud, changes, catalog, changes_token, frozen>>
    /\ UNCHANGED <<ctlVars, clsVars, cacheVars, ordVars, restVars>>

\* One deletePhoto of the loop (379-383, 499-503) is done.
DeleteDone(i) ==
    /\ At(i, "delete")
    /\ LET id == CHOOSE x \in syncs[i].todo : \A y \in syncs[i].todo : x <= y
           r  == [syncs[i] EXCEPT !.todo = @ \ {id}]
       IN  /\ catalog' = deletePhoto(catalog, id)
           /\ Continue(i, r, IF r.todo # {} THEN "delete" ELSE PcAfterDeletes(r), "DeleteDone")
    /\ UNCHANGED <<provider, cloud, changes, changes_token, frozen>>
    /\ UNCHANGED <<ctlVars, clsVars, cacheVars, ordVars, restVars>>

\* saveSetting("changes_token", changes.nextToken) is done (386-388, 507-509).
TokenSaved(i) ==
    /\ At(i, "saveToken")
    /\ changes_token' = syncs[i].nextToken
    /\ Continue(i, syncs[i], PcAfterToken(syncs[i]), "TokenSaved")
    /\ UNCHANGED <<provider, cloud, changes, catalog, frozen>>
    /\ UNCHANGED <<ctlVars, clsVars, cacheVars, ordVars, restVars>>

\* fullScan() or the scanFolder loop has answered with the images now in
\* the cloud; performInitialScan goes on to getStartPageToken (405-408).
ScanReturn(i) ==
    /\ At(i, "fullScan") \/ At(i, "scanFolder")
    /\ LET r == [syncs[i] EXCEPT !.path = "full", !.photos = cloud]
       IN  Continue(i, r, IF r.kind = "initial" THEN "startToken" ELSE PcAfterToken(r),
                    "ScanReturn")
    /\ UNCHANGED <<provider, cloud, changes, catalog, changes_token, frozen>>
    /\ UNCHANGED <<ctlVars, clsVars, cacheVars, ordVars, restVars>>

\* getStartPageToken() has answered.
StartTokenReturn(i) ==
    /\ At(i, "startToken")
    /\ LET r == [syncs[i] EXCEPT !.nextToken = getStartPageToken(provider, changes)]
       IN  Continue(i, r, "saveStart", "StartTokenReturn")
    /\ UNCHANGED <<provider, cloud, changes, catalog, changes_token, frozen>>
    /\ UNCHANGED <<ctlVars, clsVars, cacheVars, ordVars, restVars>>

\* saveSetting("changes_token", startToken) is done (407).
StartTokenSaved(i) ==
    /\ At(i, "saveStart")
    /\ changes_token' = syncs[i].nextToken
    /\ Continue(i, syncs[i], PcAfterToken(syncs[i]), "StartTokenSaved")
    /\ UNCHANGED <<provider, cloud, changes, catalog, frozen>>
    /\ UNCHANGED <<ctlVars, clsVars, cacheVars, ordVars, restVars>>

\* savePhotos(photos) has committed (412, 519); the counts that follow in
\* performInitialScan only read.
PhotosSaved(i) ==
    /\ At(i, "savePhotos")
    /\ catalog' = savePhotos(catalog, syncs[i].photos)
    /\ Continue(i, syncs[i], "done", "PhotosSaved")
    /\ UNCHANGED <<provider, cloud, changes, changes_token, frozen>>
    /\ UNCHANGED <<ctlVars, clsVars, cacheVars, ordVars, restVars>>

\* The awaited provider call or database write rejects: the catch block
\* ends the run (439, 524).  getSetting never rejects (PhotoDatabase 429).
SyncFail(i) ==
    /\ ~frozen
    /\ i \in 1..Len(syncs) /\ syncs[i].pc # "token"
    /\ syncs' = RemoveAt(syncs, i)
    /\ sstep' = [act |-> "SyncFail", run |-> syncs[i], done |-> FALSE, err |-> TRUE]
    /\ UNCHANGED <<provider, cloud, changes, catalog, changes_token, frozen>>
    /\ UNCHANGED <<ctlVars, clsVars, cacheVars, ordVars, restVars>>

\* The user adds an image to a monitored container, or removes one.
CloudAdd(id) ==
    /\ ~frozen /\ id \notin cloud /\ Len(changes) < MaxChanges
    /\ cloud' = cloud \cup {id}
    /\ changes' = IF provider = "gdrive" THEN Append(changes, id) ELSE changes
    /\ sstep' = Working
    /\ UNCHANGED <<provider, catalog, changes_token, syncs, frozen>>
    /\ UNCHANGED <<ctlVars, clsVars, cacheVars, ordVars, restVars>>

CloudRemove(id) ==
    /\ ~frozen /\ id \in cloud /\ Len(changes) < MaxChanges
    /\ cloud' = cloud \ {id}
    /\ changes' = IF provider = "gdrive" THEN Append(changes, id) ELSE changes
    /\ sstep' = Working
    /\ UNCHANGED <<provider, catalog, changes_token, syncs, frozen>>
    /\ UNCHANGED <<ctlVars, clsVars, cacheVars, ordVars, restVars>>

\* From here on the cloud does not change and nothing fails.
Freeze ==
    /\ ~frozen
    /\ frozen' = TRUE
    /\ sstep' = Working
    /\ UNCHANGED <<provider, cloud, changes, catalog, changes_token, syncs>>
    /\ UNCHANGED <<ctlVars, clsVars, cacheVars, ordVars, restVars>>

\* The controller as it stands when nothing has been received.
CtlIdle ==
    /\ cfg = [maxAuthRetries |-> Undefined, maxAuthBackoffMs |-> Undefined, inits |-> 0]
    /\ cachedCount = CachedPhotos
    /\ nh = StartFields
    /\ timeouts = {}
    /\ intervals = [scan |-> 0, display |-> 0, first |-> 0]
    /\ tasks = [k \in TaskKinds |-> 0]
    /\ healed = FALSE
    /\ step = Plain("start", NoError, << >>)
    /\ hist = StartHist

\* A fresh install: an empty catalog, no token, some images in the cloud.
SyncInit ==
    /\ provider \in Providers
    /\ cloud \in {{}, {1}}
    /\ changes = << >>
    /\ catalog = {} /\ changes_token = Null
    /\ syncs = << >>
    /\ frozen = FALSE
    /\ sstep = NoSyncStep
    /\ CtlIdle /\ ClsIdle /\ CacheIdle /\ OrdIdle /\ RestIdle

SyncNext ==
    \/ \E kind \in {"initial", "periodic"} : StartSync(kind)
    \/ \E i \in 1..MaxSyncs : ReadToken(i)
    \/ \E i \in 1..MaxSyncs : ChangesReturn(i)
    \/ \E i \in 1..MaxSyncs : DeleteDone(i)
    \/ \E i \in 1..MaxSyncs : TokenSaved(i)
    \/ \E i \in 1..MaxSyncs : ScanReturn(i)
    \/ \E i \in 1..MaxSyncs : StartTokenReturn(i)
    \/ \E i \in 1..MaxSyncs : StartTokenSaved(i)
    \/ \E i \in 1..MaxSyncs : PhotosSaved(i)
    \/ \E i \in 1..MaxSyncs : SyncFail(i)
    \/ \E id \in Ids : CloudAdd(id)
    \/ \E id \in Ids : CloudRemove(id)
    \/ Freeze

SpecSync == SyncInit /\ [][SyncNext]_vars

(***************************************************************************)
(* C11                                                                     *)
(***************************************************************************)
\* The last callback ended a sync run successfully.
SyncDone == sstep.done

\* C11 as stated: a successful sync that found a stored token called
\* getChanges with it, not a full scan, and leaves the catalog equal to the
\* catalog it started from, minus the returned deleted ids, plus the
\* returned photos.
C11_Stated ==
    (SyncDone /\ sstep.run.token # Null) =>
        /\ sstep.run.path = "delta"
        /\ catalog = (sstep.run.prev \ sstep.run.deletedIds) \cup sstep.run.photos

(***************************************************************************)
(* C12                                                                     *)
(***************************************************************************)
\* C12 as stated: after a successful sync that scanned or asked for
\* changes the stored token is the token that sync obtained, and after a
\* sync that failed the stored token is the one the sync started with.
C12_Stated ==
    /\ (SyncDone /\ sstep.run.path # "none") => changes_token = sstep.run.nextToken
    /\ sstep.err => changes_token = sstep.run.token

(***************************************************************************)
(* C13                                                                     *)
(***************************************************************************)
\* Sync runs suspended at their provider call: the initial scan of INIT or
\* of a reconnect, and periodic scans.
SyncsInProgress == tasks["init_scan"] + tasks["retry_scan"] + tasks["periodic_scan"]

\* C13 as stated: at most one sync run is in progress at any time.
C13_Stated == SyncsInProgress <= 1

(***************************************************************************)
(* C14                                                                     *)
(***************************************************************************)
\* C14 as stated: a successful sync that found no stored token (the S3
\* provider never yields one) scanned the containers in full, and every
\* image the scan saw is in the catalog when the sync ends.
C14_Stated ==
    (SyncDone /\ sstep.run.token = Null) =>
        /\ sstep.run.path = "full"
        /\ sstep.run.photos \subseteq catalog

(***************************************************************************)
(* C15                                                                     *)
(***************************************************************************)
\* The sync timer keeps firing, and every awaited call of a run answers.
SyncFairness ==
    /\ WF_vars(StartSync("periodic"))
    /\ \A i \in 1..MaxSyncs :
          /\ WF_vars(ReadToken(i))
          /\ WF_vars(ChangesReturn(i))
          /\ WF_vars(DeleteDone(i))
          /\ WF_vars(TokenSaved(i))
          /\ WF_vars(ScanReturn(i))
          /\ WF_vars(StartTokenReturn(i))
          /\ WF_vars(StartTokenSaved(i))
          /\ WF_vars(PhotosSaved(i))

SpecSyncLive == SyncInit /\ [][SyncNext]_vars /\ SyncFairness

\* C15 as stated, for the Drive provider after a sync has stored a token:
\* once the cloud has stopped changing and nothing fails any more, the
\* catalog eventually holds exactly the images in the cloud.
C15_Stated ==
    (frozen /\ provider = "gdrive" /\ changes_token # Null) ~> (catalog = cloud)

(***************************************************************************)
(* The cache manager (components/CacheManager.js) over the photos table    *)
(* (PhotoDatabase).  Every photo of the catalog has a row; a row is cached *)
(* (cached_path set) or not, and viewed at some time or never (Null).      *)
(* Every cached payload has the same size.  A tick body is a task with the *)
(* await it is suspended at and its local variables.                       *)
(***************************************************************************)
CachePhotos == 3

MaxClock == 2

MaxTicks == 2

MaxFailures == 5

RowIds == 1..CachePhotos

PhotoBytes == 512 * 1024

\* config.maxCacheSizeMB, as this configuration sets it.
maxCacheSizeMB == 1

\* const maxCacheBytes = maxCacheSizeMB * 1024 * 1024
maxCacheBytes == maxCacheSizeMB * 1024 * 1024

\* await this.evictOldest(10)
EVICT_BATCH == 10

\* await this.db.getPhotosToCache(5)
FETCH_BATCH == 5

\* if (this.consecutiveFailures > 3)
FAILURE_THRESHOLD == 3

\* The provider object the constructor was handed, when it is not null.
Handle == 1

Cached(rw) == { id \in DOMAIN rw : rw[id].cached }

Uncached(rw) == { id \in DOMAIN rw : ~rw[id].cached }

\* getCacheSizeBytes: SUM(cached_size_bytes) over the cached rows.
getCacheSizeBytes(rw) == PhotoBytes * Cardinality(Cached(rw))

\* An ordering that puts the rows never viewed last.
Before_NullsLast(rw, a, b) ==
    LET va == rw[a].viewed
        vb == rw[b].viewed
    IN  IF va = vb THEN a < b
        ELSE IF va = Null THEN FALSE
        ELSE IF vb = Null THEN TRUE
        ELSE va < vb

\* ORDER BY last_viewed_at ASC as SQLite sorts it: NULL is smaller than
\* every value (getPhotosToCache spells it out, NULLS FIRST); rows with
\* equal keys come in rowid order.
Before(rw, a, b) ==
    LET va == rw[a].viewed
        vb == rw[b].viewed
    IN  IF va = vb THEN a < b
        ELSE IF va = Null THEN TRUE
        ELSE IF vb = Null THEN FALSE
        ELSE va < vb

RECURSIVE Ordered(_, _)
Ordered(rw, S) ==
    IF S = {} THEN << >>
    ELSE LET m == CHOOSE x \in S : \A y \in S \ {x} : Before(rw, x, y)
         IN  << m >> \o Ordered(rw, S \ {m})

\* LIMIT ?
Limit(seq, n) == SubSeq(seq, 1, IF n < Len(seq) THEN n ELSE Len(seq))

\* getOldestCachedPhotos(limit) (PhotoDatabase 322-338).
getOldestCachedPhotos(rw, limit) == Limit(Ordered(rw, Cached(rw)), limit)

\* getPhotosToCache(limit) (PhotoDatabase 259-275).
getPhotosToCache(rw, limit) == Limit(Ordered(rw, Uncached(rw)), limit)

Range(seq) == { seq[k] : k \in 1..Len(seq) }

\* A tick that never finds an earlier one running.
TickBusy_Never(c) == FALSE

\* if (this.isRunning) return;
TickBusy(c) == c.isRunning

\* if (!this.provider): the constructor's argument is null.
ProviderMissing(c) == c.provider = Null

\* evictOldest(10): const photos = await this.db.getOldestCachedPhotos(count)
EvictionBatch(rw) == getOldestCachedPhotos(rw, EVICT_BATCH)

NewTick == [pc |-> "size", cacheSize |-> 0, batch |-> << >>, evicted |-> << >>]

CacheWorking == [act |-> "step", downloads |-> {}, failed |-> {}, evicted |-> << >>, before |-> 0]

\* An offline gate that closes at the threshold.
Gate_AtThreshold(c, rdy) ==
    IF ProviderMissing(c) THEN "done"
    ELSE IF c.consecutiveFailures >= FAILURE_THRESHOLD THEN "cooldown"
    ELSE "fetchQuery"

\* Steps 3 to 5 of tick(), which run without an await in between: where
\* the body waits next, or "done" when it returns.
Gate(c, rdy) ==
    IF ProviderMissing(c) THEN "done"
    ELSE IF c.consecutiveFailures > FAILURE_THRESHOLD THEN "cooldown"
    ELSE "fetchQuery"

\* Tick body i goes on as t suspended at pc, or returns through finally.
Proceed(i, t, pc, c) ==
    IF pc = "done"
    THEN /\ ticks' = RemoveAt(ticks, i)
         /\ cm' = [c EXCEPT !.isRunning = FALSE]
    ELSE /\ ticks' = [ticks EXCEPT ![i] = [t EXCEPT !.pc = pc]]
         /\ cm' = c

TickAt(i, pc) == i \in 1..Len(ticks) /\ ticks[i].pc = pc

\* The 30 s interval fires: tick() (63-69).
TickFire ==
    /\ IF TickBusy(cm)
       THEN /\ cstep' = [CacheWorking EXCEPT !.act = "TickSkipped"]
            /\ UNCHANGED <<cm, ticks>>
       ELSE /\ Len(ticks) < MaxTicks
            /\ cm' = [cm EXCEPT !.isRunning = TRUE]
            /\ ticks' = Append(ticks, NewTick)
            /\ cstep' = [CacheWorking EXCEPT !.act = "TickStarted"]
    /\ UNCHANGED <<rows, ready, clock>>
    /\ UNCHANGED <<ctlVars, clsVars, syncVars, ordVars, restVars>>

\* getCacheSizeBytes() has answered (72-88).
TickSize(i) ==
    /\ TickAt(i, "size")
    /\ LET size == getCacheSizeBytes(rows)
           t    == [ticks[i] EXCEPT !.cacheSize = size]
       IN  Proceed(i, t, IF size > maxCacheBytes THEN "evictQuery" ELSE Gate(cm, ready), cm)
    /\ cstep' = CacheWorking
    /\ UNCHANGED <<rows, ready, clock>>
    /\ UNCHANGED <<ctlVars, clsVars, syncVars, ordVars, restVars>>

\* evictOldest: getOldestCachedPhotos has answered; the files are unlinked
\* (allSettled, failures ignored) before the rows are cleared (291-304).
EvictQuery(i) ==
    /\ TickAt(i, "evictQuery")
    /\ LET b == EvictionBatch(rows)
           t == [ticks[i] EXCEPT !.batch = b, !.evicted = b]
       IN  Proceed(i, t, IF b = << >> THEN Gate(cm, ready) ELSE "evictClear", cm)
    /\ cstep' = [CacheWorking EXCEPT !.act = "EvictQuery", !.evicted = EvictionBatch(rows),
                                      !.before = ticks[i].cacheSize]
    /\ files' = files \ Range(EvictionBatch(rows))
    /\ UNCHANGED <<rows, ready, clock>>
    /\ UNCHANGED <<sortMode, tx, jobs, emitted, dstep, fixedSet, upVars, scanVars>>
    /\ UNCHANGED <<ctlVars, clsVars, syncVars, ordVars>>

\* One clearPhotoCache of the loop is done (306-309); after the last one
\* the tick goes on to its provider test.
EvictClear(i) ==
    /\ TickAt(i, "evictClear")
    /\ LET id == Head(ticks[i].batch)
           t  == [ticks[i] EXCEPT !.batch = Tail(@)]
       IN  /\ rows' = [rows EXCEPT ![id].cached = FALSE]
           /\ Proceed(i, t, IF t.batch = << >> THEN Gate(cm, ready) ELSE "evictClear", cm)
           /\ cstep' = IF t.batch = << >>
                       THEN [CacheWorking EXCEPT !.act = "EvictDone", !.evicted = t.evicted,
                                                 !.before = t.cacheSize]
                       ELSE CacheWorking
    /\ UNCHANGED <<ready, clock>>
    /\ UNCHANGED <<ctlVars, clsVars, syncVars, ordVars, restVars>>

\* The 60 s sleep of the offline gate is over (93-95).
Cooldown(i) ==
    /\ TickAt(i, "cooldown")
    /\ Proceed(i, ticks[i], "done", [cm EXCEPT !.consecutiveFailures = 0, !.failedBatches = 0])
    /\ cstep' = [CacheWorking EXCEPT !.act = "CooledDown", !.before = cm.consecutiveFailures]
    /\ UNCHANGED <<rows, ready, clock>>
    /\ UNCHANGED <<ctlVars, clsVars, syncVars, ordVars, restVars>>

\* getPhotosToCache(5) has answered; downloadPhoto is called for every
\* photo of the batch (99-111).
FetchQuery(i) ==
    /\ TickAt(i, "fetchQuery")
    /\ LET b == getPhotosToCache(rows, FETCH_BATCH)
           t == [ticks[i] EXCEPT !.batch = b]
       IN  /\ Proceed(i, t, IF b = << >> THEN "done" ELSE "download", cm)
           /\ cstep' = [CacheWorking EXCEPT !.act = "FetchQuery", !.downloads = Range(b),
                                             !.before = t.cacheSize]
    /\ UNCHANGED <<rows, ready, clock>>
    /\ UNCHANGED <<ctlVars, clsVars, syncVars, ordVars, restVars>>

\* A failure count that takes one failed download for a failed batch.
AccountFailures_Any(c, failures, n) ==
    [c EXCEPT !.consecutiveFailures = IF failures > 0 THEN @ + 1 ELSE 0,
              !.failedBatches = IF failures > 0 THEN @ + 1 ELSE 0]

\* if (failures === photos.length) this.consecutiveFailures++
\* else this.consecutiveFailures = 0
AccountFailures(c, failures, n) ==
    [c EXCEPT !.consecutiveFailures = IF failures = n THEN @ + 1 ELSE 0,
              !.failedBatches = IF failures = n THEN @ + 1 ELSE 0]

\* Promise.allSettled has answered: the photos of ok were downloaded,
\* their files written and their rows updated; a provider that is not
\* initialized downloads nothing (113-127).
DownloadsSettled(i, ok) ==
    /\ TickAt(i, "download")
    /\ ok \subseteq Range(ticks[i].batch)
    /\ ~ready => ok = {}
    /\ rows' = [id \in DOMAIN rows |->
                  IF id \in ok THEN [rows[id] EXCEPT !.cached = TRUE] ELSE rows[id]]
    /\ Proceed(i, ticks[i], "done",
               AccountFailures(cm, Len(ticks[i].batch) - Cardinality(ok), Len(ticks[i].batch)))
    /\ cstep' = [CacheWorking EXCEPT !.act = "Settled", !.downloads = ok,
                                      !.failed = Range(ticks[i].batch) \ ok,
                                      !.before = cm.consecutiveFailures]
    /\ files' = files \cup ok
    /\ UNCHANGED <<ready, clock>>
    /\ UNCHANGED <<sortMode, tx, jobs, emitted, dstep, fixedSet, upVars, scanVars>>
    /\ UNCHANGED <<ctlVars, clsVars, syncVars, ordVars>>

\* A database call of the body rejects: catch counts it, finally clears
\* the flag (129-135).  getCacheSizeBytes never rejects (PhotoDatabase 356).
TickError(i) ==
    /\ i \in 1..Len(ticks) /\ ticks[i].pc \in {"evictQuery", "evictClear", "fetchQuery"}
    /\ cm.consecutiveFailures < MaxFailures
    /\ Proceed(i, ticks[i], "done", [cm EXCEPT !.consecutiveFailures = @ + 1, !.failedBatches = 0])
    /\ cstep' = CacheWorking
    /\ UNCHANGED <<rows, ready, clock>>
    /\ UNCHANGED <<ctlVars, clsVars, syncVars, ordVars, restVars>>

\* The display shows a cached photo: markPhotoViewed (PhotoDatabase 241-252).
MarkViewed(id) ==
    /\ id \in Cached(rows) /\ clock < MaxClock
    /\ clock' = clock + 1
    /\ rows' = [rows EXCEPT ![id].viewed = clock + 1]
    /\ cstep' = CacheWorking
    /\ UNCHANGED <<cm, ticks, ready>>
    /\ UNCHANGED <<ctlVars, clsVars, syncVars, ordVars, restVars>>

\* photoProvider.initialize() succeeds, or a sync failure marks the
\* provider uninitialized (node_helper.js 256, 335, 447, 532).
ProviderChange ==
    /\ ready' = ~ready
    /\ cstep' = CacheWorking
    /\ UNCHANGED <<rows, cm, ticks, clock>>
    /\ UNCHANGED <<ctlVars, clsVars, syncVars, ordVars, restVars>>

\* new CacheManager(config, db, provider): with the provider object, as
\* node_helper constructs it whether or not initialize() succeeded, or
\* with null; some photos are cached, each with its file, none has been
\* viewed.
CacheInit ==
    /\ rows \in [RowIds -> [cached : BOOLEAN, viewed : {Null}]]
    /\ files = Cached(rows)
    /\ cm \in [isRunning : {FALSE}, consecutiveFailures : {0}, failedBatches : {0},
             provider : {Null, Handle}]
    /\ ticks = << >>
    /\ ready \in BOOLEAN
    /\ clock = 0
    /\ cstep = NoCacheStep
    /\ sortMode = "sequential" /\ tx = NoTx /\ jobs = << >> /\ emitted = << >>
    /\ dstep = NoDbStep /\ fixedSet = TRUE
    /\ CtlIdle /\ ClsIdle /\ SyncIdle /\ OrdIdle /\ UpIdle /\ ScanIdle

CacheNext ==
    \/ TickFire
    \/ \E i \in 1..MaxTicks : TickSize(i)
    \/ \E i \in 1..MaxTicks : EvictQuery(i)
    \/ \E i \in 1..MaxTicks : EvictClear(i)
    \/ \E i \in 1..MaxTicks : Cooldown(i)
    \/ \E i \in 1..MaxTicks : FetchQuery(i)
    \/ \E i \in 1..MaxTicks : \E ok \in SUBSET RowIds : DownloadsSettled(i, ok)
    \/ \E i \in 1..MaxTicks : TickError(i)
    \/ \E id \in RowIds : MarkViewed(id)
    \/ ProviderChange

SpecCache == CacheInit /\ [][CacheNext]_vars

\* C16: at most one tick body is in progress, and a tick fired while one is
\* in progress is skipped and leaves the photo rows, the failure counter,
\* the provider and the running body as they were.
C16_OneTickBody ==
    /\ [](Len(ticks) <= 1)
    /\ [][(Len(ticks) >= 1 /\ cstep'.act \in {"TickSkipped", "TickStarted"})
            => /\ cstep'.act = "TickSkipped"
               /\ UNCHANGED <<rows, cm, ticks, ready>>]_vars

C16_Witness ==
    /\ cstep.act = "TickSkipped"
    /\ Len(ticks) = 1 /\ ticks[1].pc \in {"cooldown", "download"}
    /\ cm.consecutiveFailures > 0

C34_Stated ==
    /\ [][\A id \in DOMAIN rows :
            (~rows[id].cached /\ rows'[id].cached) => id \in files']_vars
    /\ [](Cached(rows) \subseteq files)

\* C17 as stated: a tick that reaches its fetch step while the provider is
\* not initialized starts no download.
C17_Stated == (cstep.act = "FetchQuery" /\ ~ready) => cstep.downloads = {}

\* C18 as stated: an eviction only follows a measured total above the
\* budget, and when it is over the total is at or below the budget while
\* one more cached photo would have put it above.
C18_Stated ==
    /\ cstep.act = "EvictQuery" => cstep.before > maxCacheBytes
    /\ cstep.act = "EvictDone" =>
          /\ getCacheSizeBytes(rows) <= maxCacheBytes
          /\ getCacheSizeBytes(rows) + PhotoBytes > maxCacheBytes

(***************************************************************************)
(* getOldestCachedPhotos on its own: any photos table, any limit.          *)
(***************************************************************************)
Query ==
    /\ ordOut = << >>
    /\ ordOut' = getOldestCachedPhotos(rows, ordLimit)
    /\ UNCHANGED <<ordLimit, cacheVars>>
    /\ UNCHANGED <<ctlVars, clsVars, syncVars, restVars>>

OrdInit ==
    /\ rows \in [RowIds -> [cached : BOOLEAN, viewed : {Null} \cup 1..MaxClock]]
    /\ ordLimit \in 1..CachePhotos
    /\ ordOut = << >>
    /\ cm = [isRunning |-> FALSE, consecutiveFailures |-> 0, failedBatches |-> 0, provider |-> Null]
    /\ ticks = << >> /\ ready = FALSE /\ clock = 0 /\ cstep = NoCacheStep
    /\ CtlIdle /\ ClsIdle /\ SyncIdle /\ RestIdle

SpecEvictOrder == OrdInit /\ [][Query]_vars

NeverViewed(id) == rows[id].viewed = Null

\* C19 as stated: a never-viewed photo is returned only when every viewed
\* cached photo is returned too.
C19_Stated ==
    \A k \in 1..Len(ordOut) :
        NeverViewed(ordOut[k]) =>
            \A y \in Cached(rows) : ~NeverViewed(y) => y \in Range(ordOut)

\* C19 as the query behaves: the result holds at most limit cached photos,
\* the never-viewed ones first and then the viewed ones by ascending
\* last_viewed_at; a viewed photo is returned only when every never-viewed
\* cached photo is returned too, and no photo left out was viewed earlier
\* than one returned.
C19_NeverViewedFirst ==
    /\ Len(ordOut) <= ordLimit
    /\ Range(ordOut) \subseteq Cached(rows)
    /\ \A k, l \in 1..Len(ordOut) : k < l =>
          /\ ordOut[k] # ordOut[l]
          /\ NeverViewed(ordOut[l]) => NeverViewed(ordOut[k])
          /\ ~NeverViewed(ordOut[k]) => rows[ordOut[k]].viewed <= rows[ordOut[l]].viewed
    /\ \A k \in 1..Len(ordOut) : \A y \in Cached(rows) \ Range(ordOut) :
          /\ ~NeverViewed(ordOut[k]) => ~NeverViewed(y)
          /\ ~NeverViewed(ordOut[k]) => rows[ordOut[k]].viewed <= rows[y].viewed

C19_Witness ==
    /\ Len(ordOut) = 2
    /\ NeverViewed(ordOut[1]) /\ ~NeverViewed(ordOut[2])
    /\ \E y \in Cached(rows) \ Range(ordOut) : rows[y].viewed > rows[ordOut[2]].viewed

\* C20 as stated: a tick that measured the cache at exactly its budget and
\* reaches its fetch step when every uncached photo has been viewed starts
\* no download.
C20_Stated ==
    (/\ cstep.act = "FetchQuery"
     /\ cstep.before = maxCacheBytes
     /\ getCacheSizeBytes(rows) = maxCacheBytes
     /\ \A id \in Uncached(rows) : ~NeverViewed(id))
        => cstep.downloads = {}

(***************************************************************************)
(* The catalog as its callers share it: one SQLite connection (this.db of  *)
(* PhotoDatabase) used by the syncs (savePhotos, deletePhoto), the display *)
(* timer (getNextPhoto, markPhotoViewed) and the IMAGE_LOADED handler.  A  *)
(* statement takes effect when it is issued; its caller resumes in a later *)
(* step.  A statement issued while a transaction is open on the connection *)
(* belongs to that transaction, whoever issued it.  The cache manager is   *)
(* not running: cached photos stay cached, inserted ones stay uncached.    *)
(***************************************************************************)
CatalogPhotos == 2

PhotoRows == 1..CatalogPhotos

MaxMarks == 2

MaxJobs == 2

MaxEmitted == 2

SortModes == {"sequential", "random", "newest", "oldest"}

\* The createdTime the provider reports for a file: the photo with the
\* greatest id was created first, the others in the order of their ids.
CreatedTime(id) == (id % CatalogPhotos) + 1

AbsentRow ==
    [present |-> FALSE, cached |-> FALSE, viewed |-> Null, ctime |-> Null, filename |-> ""]

\* A next-photo query that takes any cached photo.
getNextPhoto_AnyCached(rw) == Cached(rw)

\* getNextPhoto: WHERE cached_path IS NOT NULL ORDER BY last_viewed_at ASC
\* NULLS FIRST, RANDOM() LIMIT 1.  The rows the query may return; it
\* returns null exactly when the set is empty.
getNextPhoto(rw) ==
    { id \in Cached(rw) :
        \A y \in Cached(rw) :
            \/ rw[id].viewed = Null
            \/ (rw[y].viewed # Null /\ rw[id].viewed <= rw[y].viewed) }

\* markPhotoViewed: UPDATE photos SET last_viewed_at = ? WHERE id = ?
markPhotoViewed(rw, id, now) ==
    IF rw[id].present THEN [rw EXCEPT ![id].viewed = now] ELSE rw

\* What a provider returns for the file id: scanFolder, fullScan and
\* getChanges all report name and createdTime.
ProviderPhoto(id) == [id |-> id, name |-> "photo", createdTime |-> CreatedTime(id)]

\* A savePhoto that stamps every row it writes with the time of the call.
savePhoto_Now(rw, photo, now) ==
    [rw EXCEPT ![photo.id] =
        [(IF rw[photo.id].present THEN rw[photo.id] ELSE [AbsentRow EXCEPT !.present = TRUE])
            EXCEPT !.filename = photo.name, !.ctime = now]]

\* A savePhoto written as INSERT OR REPLACE: the row is made anew.
savePhoto_Replace(rw, photo, now) ==
    [rw EXCEPT ![photo.id] =
        [AbsentRow EXCEPT !.present = TRUE, !.filename = photo.name,
                          !.ctime = IF photo.createdTime # Null THEN photo.createdTime ELSE now]]

\* savePhoto: creationTime = photo.createdTime ? getTime() : Date.now();
\* INSERT ... ON CONFLICT(id) DO UPDATE SET folder_id, filename,
\* creation_time, width, height.  folder_id, width and height are copied
\* from the photo as filename is.
savePhoto(rw, photo, now) ==
    LET creationTime == IF photo.createdTime # Null THEN photo.createdTime ELSE now
        old == IF rw[photo.id].present THEN rw[photo.id] ELSE [AbsentRow EXCEPT !.present = TRUE]
    IN  [rw EXCEPT ![photo.id] = [old EXCEPT !.filename = photo.name, !.ctime = creationTime]]

RECURSIVE InIdOrder(_)
InIdOrder(S) ==
    IF S = {} THEN << >>
    ELSE LET m == CHOOSE x \in S : \A y \in S : x <= y
         IN  << m >> \o InIdOrder(S \ {m})

SendJob(id) ==
    [kind |-> "send", pc |-> "read", id |-> id, todo |-> << >>,
     batch |-> {}, before |-> {}, foreign |-> {}]

SaveJob(batch, pc) ==
    [kind |-> "save", pc |-> pc, id |-> Null, todo |-> InIdOrder(batch),
     batch |-> batch, before |-> { id \in batch : rows[id].present }, foreign |-> {}]

JobAt(j, kind, pc) == j \in 1..Len(jobs) /\ jobs[j].kind = kind /\ jobs[j].pc = pc

\* Every other job in progress has seen a row of ids written behind its back.
Touch(js, ids, self) ==
    [k \in 1..Len(js) |-> IF k = self THEN js[k] ELSE [js[k] EXCEPT !.foreign = @ \cup ids]]

DbStep(act, id, job) == [act |-> act, id |-> id, job |-> job]

\* The display interval or the first-emission timeout fires: sendNextPhoto
\* asks for the next photo (node_helper.js 568-577).
SendStart ==
    /\ Len(jobs) < MaxJobs
    /\ IF getNextPhoto(rows) = {}
       THEN /\ dstep' = DbStep("GetNext", Null, << >>)
            /\ UNCHANGED jobs
       ELSE \E r \in getNextPhoto(rows) :
                /\ jobs' = Append(jobs, SendJob(r))
                /\ dstep' = DbStep("GetNext", r, << >>)
    /\ UNCHANGED <<rows, clock, sortMode, tx, files, emitted, fixedSet>>
    /\ UNCHANGED <<cm, ticks, ready, cstep>>
    /\ UNCHANGED <<ctlVars, clsVars, syncVars, ordVars, upVars, scanVars>>

\* The photo's file was read: DISPLAY_PHOTO is sent and the photo marked
\* viewed, fire-and-forget (node_helper.js 582-607).
SendEmit(j) ==
    /\ JobAt(j, "send", "read")
    /\ jobs[j].id \in files
    /\ Len(emitted) < MaxEmitted /\ clock < MaxMarks
    /\ emitted' = Append(emitted, jobs[j].id)
    /\ clock' = clock + 1
    /\ rows' = markPhotoViewed(rows, jobs[j].id, clock + 1)
    /\ jobs' = RemoveAt(jobs, j)
    /\ dstep' = DbStep("Emit", jobs[j].id, << >>)
    /\ UNCHANGED <<sortMode, tx, files, fixedSet>>
    /\ UNCHANGED <<cm, ticks, ready, cstep>>
    /\ UNCHANGED <<ctlVars, clsVars, syncVars, ordVars, upVars, scanVars>>

\* IMAGE_LOADED for a photo that was sent (node_helper.js 54-63).
ImageLoaded(id) ==
    /\ id \in Range(emitted) /\ clock < MaxMarks
    /\ clock' = clock + 1
    /\ rows' = markPhotoViewed(rows, id, clock + 1)
    /\ dstep' = DbStep("Ack", id, << >>)
    /\ UNCHANGED <<sortMode, tx, files, jobs, emitted, fixedSet>>
    /\ UNCHANGED <<cm, ticks, ready, cstep>>
    /\ UNCHANGED <<ctlVars, clsVars, syncVars, ordVars, upVars, scanVars>>

\* A sync calls savePhotos(batch): BEGIN TRANSACTION is issued; it fails
\* when a transaction is already open on the connection.
SaveBegin(batch) ==
    /\ batch # {} /\ Len(jobs) < MaxJobs
    /\ IF tx.open
       THEN /\ jobs' = Append(jobs, SaveJob(batch, "catch"))
            /\ UNCHANGED tx
       ELSE /\ jobs' = Append(jobs, SaveJob(batch, "photo"))
            /\ tx' = [open |-> TRUE, snap |-> rows]
    /\ dstep' = DbStep("Begin", Null, << >>)
    /\ UNCHANGED <<rows, clock, sortMode, files, emitted, fixedSet>>
    /\ UNCHANGED <<cm, ticks, ready, cstep>>
    /\ UNCHANGED <<ctlVars, clsVars, syncVars, ordVars, upVars, scanVars>>

\* The loop of savePhotos issues the next savePhoto; ok tells whether the
\* statement succeeds.
SavePhoto(j, ok) ==
    /\ JobAt(j, "save", "photo")
    /\ LET id == Head(jobs[j].todo)
           t  == [jobs[j] EXCEPT !.todo = Tail(@),
                                 !.pc = IF Tail(jobs[j].todo) = << >> THEN "commit" ELSE "photo"]
       IN  IF ok
           THEN /\ rows' = savePhoto(rows, ProviderPhoto(id), clock)
                /\ jobs' = Touch([jobs EXCEPT ![j] = t], {id}, j)
           ELSE /\ jobs' = [jobs EXCEPT ![j].pc = "catch"]
                /\ UNCHANGED rows
    /\ dstep' = DbStep("Save", Null, << >>)
    /\ UNCHANGED <<clock, sortMode, tx, files, emitted, fixedSet>>
    /\ UNCHANGED <<cm, ticks, ready, cstep>>
    /\ UNCHANGED <<ctlVars, clsVars, syncVars, ordVars, upVars, scanVars>>

\* COMMIT is issued: it commits the open transaction and savePhotos
\* returns, or fails when no transaction is open.
SaveCommit(j) ==
    /\ JobAt(j, "save", "commit")
    /\ IF tx.open
       THEN /\ tx' = NoTx
            /\ jobs' = RemoveAt(jobs, j)
            /\ dstep' = DbStep("Saved", Null, jobs[j])
       ELSE /\ jobs' = [jobs EXCEPT ![j].pc = "catch"]
            /\ dstep' = DbStep("Save", Null, << >>)
            /\ UNCHANGED tx
    /\ UNCHANGED <<rows, clock, sortMode, files, emitted, fixedSet>>
    /\ UNCHANGED <<cm, ticks, ready, cstep>>
    /\ UNCHANGED <<ctlVars, clsVars, syncVars, ordVars, upVars, scanVars>>

\* catch: ROLLBACK is issued, its own failure ignored, and savePhotos
\* throws.  ROLLBACK restores the table as it was at BEGIN.
SaveCatch(j) ==
    /\ JobAt(j, "save", "catch")
    /\ IF tx.open
       THEN /\ rows' = tx.snap
            /\ tx' = NoTx
       ELSE UNCHANGED <<rows, tx>>
    /\ jobs' = RemoveAt(jobs, j)
    /\ dstep' = DbStep("SaveFailed", Null, jobs[j])
    /\ UNCHANGED <<clock, sortMode, files, emitted, fixedSet>>
    /\ UNCHANGED <<cm, ticks, ready, cstep>>
    /\ UNCHANGED <<ctlVars, clsVars, syncVars, ordVars, upVars, scanVars>>

\* A sync applies a deletion: database.deletePhoto(id), DELETE FROM photos
\* WHERE id = ? (node_helper.js 379-383).
DeletePhoto(id) ==
    /\ rows[id].present
    /\ rows' = [rows EXCEPT ![id] = AbsentRow]
    /\ jobs' = Touch(jobs, {id}, 0)
    /\ fixedSet' = FALSE
    /\ dstep' = DbStep("Delete", id, << >>)
    /\ UNCHANGED <<clock, sortMode, tx, files, emitted>>
    /\ UNCHANGED <<cm, ticks, ready, cstep>>
    /\ UNCHANGED <<ctlVars, clsVars, syncVars, ordVars, upVars, scanVars>>

CachedRow(id) ==
    [present |-> TRUE, cached |-> TRUE, viewed |-> Null, ctime |-> CreatedTime(id),
     filename |-> "photo"]

\* Some photos are in the catalog and cached, none was viewed; the others
\* are not in the catalog yet.
CatalogInit ==
    /\ \E S \in SUBSET PhotoRows :
          /\ rows = [id \in PhotoRows |-> IF id \in S THEN CachedRow(id) ELSE AbsentRow]
          /\ files = S
    /\ sortMode = "sequential"
    /\ tx = NoTx /\ jobs = << >> /\ emitted = << >> /\ dstep = NoDbStep /\ fixedSet = TRUE
    /\ clock = 0
    /\ cm = [isRunning |-> FALSE, consecutiveFailures |-> 0, failedBatches |-> 0, provider |-> Null]
    /\ ticks = << >> /\ ready = FALSE /\ cstep = NoCacheStep
    /\ CtlIdle /\ ClsIdle /\ SyncIdle /\ OrdIdle /\ UpIdle /\ ScanIdle

CatalogNext ==
    \/ SendStart
    \/ \E j \in 1..MaxJobs : SendEmit(j)
    \/ \E id \in PhotoRows : ImageLoaded(id)
    \/ \E batch \in SUBSET PhotoRows : SaveBegin(batch)
    \/ \E j \in 1..MaxJobs : \E ok \in BOOLEAN : SavePhoto(j, ok)
    \/ \E j \in 1..MaxJobs : SaveCommit(j)
    \/ \E j \in 1..MaxJobs : SaveCatch(j)
    \/ \E id \in PhotoRows : DeletePhoto(id)

SpecCatalog == CatalogInit /\ [][CatalogNext]_vars

(***************************************************************************)
(* The display timer over a catalog some of whose cache files are gone: a  *)
(* file removed from the cache directory, or unlinked by an eviction whose *)
(* clearPhotoCache did not follow (CacheManager.js 298-308).  No sync and  *)
(* no cache tick runs.                                                     *)
(***************************************************************************)
\* fs.promises.readFile(photo.cached_path) rejects: the catch block logs
\* "Error sending photo" and sendNextPhoto returns; neither DISPLAY_PHOTO
\* nor markPhotoViewed was reached (node_helper.js 589, 611-613).
SendReadFail(j) ==
    /\ JobAt(j, "send", "read")
    /\ jobs[j].id \notin files
    /\ jobs' = RemoveAt(jobs, j)
    /\ dstep' = DbStep("ReadFailed", jobs[j].id, << >>)
    /\ UNCHANGED <<rows, clock, sortMode, tx, files, emitted, fixedSet>>
    /\ UNCHANGED <<cm, ticks, ready, cstep>>
    /\ UNCHANGED <<ctlVars, clsVars, syncVars, ordVars, upVars, scanVars>>

DisplayInit ==
    /\ \E S \in SUBSET PhotoRows : \E F \in SUBSET S :
          /\ rows = [id \in PhotoRows |-> IF id \in S THEN CachedRow(id) ELSE AbsentRow]
          /\ files = F
    /\ sortMode = "sequential"
    /\ tx = NoTx /\ jobs = << >> /\ emitted = << >> /\ dstep = NoDbStep /\ fixedSet = TRUE
    /\ clock = 0
    /\ cm = [isRunning |-> FALSE, consecutiveFailures |-> 0, failedBatches |-> 0, provider |-> Null]
    /\ ticks = << >> /\ ready = FALSE /\ cstep = NoCacheStep
    /\ CtlIdle /\ ClsIdle /\ SyncIdle /\ OrdIdle /\ UpIdle /\ ScanIdle

DisplayNext ==
    \/ SendStart
    \/ \E j \in 1..MaxJobs : SendEmit(j)
    \/ \E j \in 1..MaxJobs : SendReadFail(j)
    \/ \E id \in PhotoRows : ImageLoaded(id)

SpecDisplay == DisplayInit /\ [][DisplayNext]_vars

Readable(rw) == Cached(rw) \cap files

\* C36 as stated: after an emission failed on a photo whose file cannot be
\* read, and while some cached photo can be read, the next display tick
\* is not bound to select the unreadable photo again.
C36_Stated ==
    (dstep.act = "ReadFailed" /\ Readable(rows) # {}) => getNextPhoto(rows) # {dstep.id}

(***************************************************************************)
(* getNextPhoto and markPhotoViewed called in turn by one caller, as the   *)
(* display timer does when nothing else uses the catalog: any set of       *)
(* cached photos, any creation times, any sort mode.                       *)
(***************************************************************************)
MaxCalls == 4

\* const photo = await this.database.getNextPhoto()
GetNext ==
    /\ dstep.act # "GetNext" /\ Len(emitted) < MaxCalls
    /\ IF getNextPhoto(rows) = {}
       THEN dstep' = DbStep("GetNext", Null, << >>)
       ELSE \E r \in getNextPhoto(rows) : dstep' = DbStep("GetNext", r, << >>)
    /\ UNCHANGED <<rows, clock, sortMode, tx, files, jobs, emitted, fixedSet>>
    /\ UNCHANGED <<cm, ticks, ready, cstep>>
    /\ UNCHANGED <<ctlVars, clsVars, syncVars, ordVars, upVars, scanVars>>

\* this.database.markPhotoViewed(photo.id) for the photo just returned.
Mark ==
    /\ dstep.act = "GetNext" /\ dstep.id # Null
    /\ clock' = clock + 1
    /\ rows' = markPhotoViewed(rows, dstep.id, clock + 1)
    /\ emitted' = Append(emitted, dstep.id)
    /\ dstep' = DbStep("Mark", dstep.id, << >>)
    /\ UNCHANGED <<sortMode, tx, files, jobs, fixedSet>>
    /\ UNCHANGED <<cm, ticks, ready, cstep>>
    /\ UNCHANGED <<ctlVars, clsVars, syncVars, ordVars, upVars, scanVars>>

NextPhotoInit ==
    /\ \E S \in SUBSET RowIds : \E ct \in Permutations(RowIds) :
          /\ rows = [id \in RowIds |->
                       [present |-> TRUE, cached |-> id \in S, viewed |-> Null, ctime |-> ct[id],
                        filename |-> "photo"]]
          /\ files = S
    /\ sortMode \in SortModes
    /\ tx = NoTx /\ jobs = << >> /\ emitted = << >> /\ dstep = NoDbStep /\ fixedSet = TRUE
    /\ clock = 0
    /\ cm = [isRunning |-> FALSE, consecutiveFailures |-> 0, failedBatches |-> 0, provider |-> Null]
    /\ ticks = << >> /\ ready = FALSE /\ cstep = NoCacheStep
    /\ CtlIdle /\ ClsIdle /\ SyncIdle /\ OrdIdle /\ UpIdle /\ ScanIdle

SpecNextPhoto == NextPhotoInit /\ [][GetNext \/ Mark]_vars

\* C21: what getNextPhoto returns is a cached photo, it returns none
\* exactly when no photo is cached, and it returns a viewed photo only when
\* every cached photo has been viewed.
C21_NextIsCached ==
    dstep.act = "GetNext" =>
        /\ dstep.id = Null <=> Cached(rows) = {}
        /\ dstep.id # Null =>
              /\ dstep.id \in Cached(rows)
              /\ rows[dstep.id].viewed # Null =>
                    \A y \in Cached(rows) : rows[y].viewed # Null

C21_Witness ==
    /\ dstep.act = "GetNext" /\ dstep.id # Null
    /\ rows[dstep.id].viewed = Null
    /\ \E y \in Cached(rows) : rows[y].viewed # Null
    /\ Uncached(rows) # {}

SameClass(id) == { y \in Cached(rows) : (rows[y].viewed = Null) <=> (rows[id].viewed = Null) }

\* The photo the sort mode puts first in a class.
ModeFirst(mode, class) ==
    CASE mode = "sequential" -> { x \in class : \A y \in class : x <= y }
      [] mode = "newest"     -> { x \in class : \A y \in class : rows[x].ctime >= rows[y].ctime }
      [] mode = "oldest"     -> { x \in class : \A y \in class : rows[x].ctime <= rows[y].ctime }
      [] OTHER               -> class

\* C22 as stated: the photo returned is the one the sort mode puts first
\* among the cached photos of its class (never viewed, or viewed); so
\* with every photo cached in sequential mode the calls return the
\* photos in the order of their ids and then the first one again.
C22_Stated ==
    /\ (dstep.act = "GetNext" /\ dstep.id # Null) =>
           dstep.id \in ModeFirst(sortMode, SameClass(dstep.id))
    /\ (sortMode = "sequential" /\ Cached(rows) = RowIds) =>
           \A k \in 1..Len(emitted) : emitted[k] = ((k - 1) % CachePhotos) + 1

Distinct(seq) == \A k, l \in 1..Len(seq) : seq[k] = seq[l] => k = l

\* C23 as stated: while the set of cached photos is the one the engine
\* started with, all never viewed then, the first n DISPLAY_PHOTO
\* notifications show n different photos.
C23_Stated ==
    (fixedSet /\ Len(emitted) <= Cardinality(Cached(rows))) => Distinct(emitted)

\* C24 as stated: no step makes the last_viewed_at of a photo that stays
\* in the catalog smaller, or null again.
C24_Stated ==
    [][\A id \in PhotoRows :
          (rows[id].present /\ rows'[id].present) => rows'[id].viewed >= rows[id].viewed]_vars

\* C25 as stated: once a sync has deleted a photo, its row is gone, its
\* cache file is gone and the cache total no longer counts it.
C25_Stated ==
    dstep.act = "Delete" =>
        /\ ~rows[dstep.id].present
        /\ dstep.id \notin files
        /\ dstep.id \notin Cached(rows)

\* The photos a savePhotos call has upserted itself, and those of its
\* batch that no other caller wrote or deleted while it was in progress.
Wrote(job) == job.batch \ Range(job.todo)

OwnRows(job) == job.batch \ job.foreign

\* C26 as stated: when savePhotos fails, no photo it inserted is in the
\* catalog; when it succeeds, every photo of the batch is.
C26_Stated ==
    /\ dstep.act = "SaveFailed" =>
          \A p \in (Wrote(dstep.job) \cap OwnRows(dstep.job)) \ dstep.job.before :
              ~rows[p].present
    /\ dstep.act = "Saved" =>
          \A p \in OwnRows(dstep.job) : rows[p].present

(***************************************************************************)
(* savePhotos on its own: any table, any provider result, handed to it     *)
(* twice at different times.                                               *)
(***************************************************************************)
MaxUpserts == 2

Names == {"photo", "renamed"}

RECURSIVE UpsertAll(_, _, _)
\* for (const photo of photos) await this.savePhoto(photo)
UpsertAll(rw, photos, now) ==
    IF photos = << >> THEN rw
    ELSE UpsertAll(savePhoto(rw, Head(photos), now), Tail(photos), now)

\* Tables of photos, cached or not, viewed or not.
Tables ==
    [PhotoRows -> {AbsentRow} \cup
        [present : {TRUE}, cached : BOOLEAN, viewed : {Null, 1}, ctime : 1..CatalogPhotos,
         filename : Names]]

\* Provider results: some files, each with its name and createdTime.
ProviderResults ==
    UNION { [S -> [name : Names, createdTime : 1..CatalogPhotos]] : S \in SUBSET PhotoRows \ {{}} }

AsPhotos(result) ==
    LET ids == InIdOrder(DOMAIN result)
    IN  [k \in 1..Len(ids) |->
            [id |-> ids[k], name |-> result[ids[k]].name, createdTime |-> result[ids[k]].createdTime]]

\* await this.database.savePhotos(photos), some time after the last call.
Upsert ==
    /\ Len(upOut) < MaxUpserts
    /\ clock' = clock + 1
    /\ rows' = UpsertAll(rows, AsPhotos(upIn), clock + 1)
    /\ upOut' = Append(upOut, rows')
    /\ UNCHANGED <<upIn, cm, ticks, ready, cstep, dbVars, scanVars>>
    /\ UNCHANGED <<ctlVars, clsVars, syncVars, ordVars>>

UpsertInit ==
    /\ rows \in Tables
    /\ upIn \in ProviderResults
    /\ upOut = << >>
    /\ clock = CatalogPhotos
    /\ cm = [isRunning |-> FALSE, consecutiveFailures |-> 0, failedBatches |-> 0, provider |-> Null]
    /\ ticks = << >> /\ ready = FALSE /\ cstep = NoCacheStep
    /\ CtlIdle /\ ClsIdle /\ SyncIdle /\ OrdIdle /\ DbIdle /\ ScanIdle

SpecUpsert == UpsertInit /\ [][Upsert]_vars

\* C27: upserting a provider result a second time changes nothing: the
\* table after the second upsert is the table after the first, field by
\* field, with one row for each photo of the result carrying its name and
\* creation time.
C27_UpsertTwice ==
    /\ Len(upOut) = MaxUpserts => upOut[MaxUpserts] = upOut[1]
    /\ Len(upOut) >= 1 =>
          \A id \in DOMAIN upIn :
              /\ rows[id].present
              /\ rows[id].filename = upIn[id].name
              /\ rows[id].ctime = upIn[id].createdTime

C27_Witness ==
    /\ Len(upOut) = MaxUpserts
    /\ \E id \in DOMAIN upIn : rows[id].viewed # Null /\ rows[id].cached
    /\ \E id \in PhotoRows \ DOMAIN upIn : rows[id].present
    /\ DOMAIN upIn # PhotoRows

ScanFolders == 4

MaxKids == 2

MaxDepth == 2

\* maxDepth = -1: no limit.
Unlimited == -1

Folders == 1..ScanFolders

Graphs == [Folders -> { K \in SUBSET Folders : Cardinality(K) <= MaxKids }]

\* The image files listed with "'<folderId>' in parents".
ImagesIn(f) == {f}

\* A visited set that never records a folder.
MarkVisited_Forget(visited, f) == visited

\* visitedFolders.add(folderId)
MarkVisited(visited, f) == visited \cup {f}

\* if (maxDepth === -1 || currentDepth < maxDepth)
MayDescend(maxDepth, currentDepth) == maxDepth = Unlimited \/ currentDepth < maxDepth

\* The call scanFolder(f, maxDepth, d, visitedFolders) up to the point
\* where it starts on its subfolders: the folder is recorded as visited,
\* its images are listed, and its subfolders if the depth allows.
Enter(out, f, d) ==
    [out EXCEPT
        !.visited = MarkVisited(@, f),
        !.photos = @ \cup ImagesIn(f),
        !.calls = Append(@, f),
        !.stack = Append(@, [folder |-> f, depth |-> d,
                             kids |-> IF MayDescend(scanIn.maxDepth, d)
                                      THEN scanIn.children[f] ELSE {}])]

NoScan == [stack |-> << >>, visited |-> {}, photos |-> {}, calls |-> << >>, done |-> FALSE]

Top == scanOut.stack[Len(scanOut.stack)]

Pop(out) == [out EXCEPT !.stack = SubSeq(@, 1, Len(@) - 1)]

\* provider.scanFolder(folderId, depth): the first call.
ScanStart ==
    /\ scanOut = << >>
    /\ scanOut' = Enter(NoScan, scanIn.start, 0)
    /\ UNCHANGED <<scanIn, dbVars, upVars, cacheVars>>
    /\ UNCHANGED <<ctlVars, clsVars, syncVars, ordVars>>

\* The loop over the subfolders takes the next one: a folder already
\* visited is passed over, any other is scanned one level deeper.
ScanChild(k) ==
    /\ scanOut # << >> /\ scanOut.stack # << >>
    /\ k \in Top.kids
    /\ LET rest == [scanOut EXCEPT !.stack[Len(scanOut.stack)].kids = @ \ {k}]
       IN  scanOut' = IF k \in scanOut.visited THEN rest ELSE Enter(rest, k, Top.depth + 1)
    /\ UNCHANGED <<scanIn, dbVars, upVars, cacheVars>>
    /\ UNCHANGED <<ctlVars, clsVars, syncVars, ordVars>>

\* A call has gone through its subfolders and returns its photos; the
\* scan is over when the first call returns.
ScanFolderReturn ==
    /\ scanOut # << >> /\ scanOut.stack # << >>
    /\ Top.kids = {}
    /\ scanOut' = [Pop(scanOut) EXCEPT !.done = Len(scanOut.stack) = 1]
    /\ UNCHANGED <<scanIn, dbVars, upVars, cacheVars>>
    /\ UNCHANGED <<ctlVars, clsVars, syncVars, ordVars>>

ScanInit ==
    /\ scanIn \in [children : Graphs, start : {1}, maxDepth : Unlimited..MaxDepth]
    /\ scanOut = << >>
    /\ CtlIdle /\ ClsIdle /\ SyncIdle /\ CacheIdle /\ OrdIdle /\ DbIdle /\ UpIdle

ScanNext ==
    \/ ScanStart
    \/ \E k \in Folders : ScanChild(k)
    \/ ScanFolderReturn

\* Every listing the scan awaits is answered.
SpecScan == ScanInit /\ [][ScanNext]_vars /\ WF_vars(ScanNext)

RECURSIVE Within(_, _, _)
\* The folders at most n levels below the folders of S.
Within(g, S, n) ==
    IF n = 0 THEN S
    ELSE Within(g, S \cup UNION { g[f] : f \in S }, n - 1)

Reachable(g, S) == Within(g, S, ScanFolders)

ScanDone == scanOut # << >> /\ scanOut.done

\* C28 as stated: a scan with depth N >= 0 returns the images of the
\* folders at most N levels below the start folder, no others.
C28_Stated ==
    (ScanDone /\ scanIn.maxDepth >= 0) =>
        scanOut.photos = UNION { ImagesIn(f) : f \in Within(scanIn.children, {scanIn.start}, scanIn.maxDepth) }

\* C29: a scan without depth limit comes to an end on every graph, lists
\* no folder twice and returns the images of every folder that can be
\* reached from the start folder.
C29_Unbounded ==
    /\ [](scanIn.maxDepth = Unlimited /\ scanOut # << >> =>
            /\ Distinct(scanOut.calls)
            /\ scanOut.done =>
                  scanOut.photos = UNION { ImagesIn(f) : f \in Reachable(scanIn.children, {scanIn.start}) })
    /\ (scanIn.maxDepth = Unlimited => <>ScanDone)

C29_Witness ==
    /\ ScanDone /\ scanIn.maxDepth = Unlimited
    /\ 1 \in scanIn.children[2] /\ 2 \in scanIn.children[1]
    /\ Len(scanOut.calls) = ScanFolders - 1

(***************************************************************************)
(* The downloads of a tick, one by one (CacheManager.js 98-126, 143-234,   *)
(* file mode with resizing): every photo of the batch has its own          *)
(* downloadPhoto call, suspended at the provider call, the processing of   *)
(* the stream, the write of the file, the catalog update or the backoff    *)
(* sleep.  A sync may delete a photo at any moment.                        *)
(***************************************************************************)
\* async downloadPhoto(photoId, maxRetries = 3)
MAX_RETRIES == 3

\* The photos getPhotosToCache can return: rows without cached_path.
Candidates(rw) == { id \in DOMAIN rw : rw[id].present /\ ~rw[id].cached }

\* An update that inserts the row when it finds none.
updatePhotoCache_Upsert(rw, id) ==
    [rw EXCEPT ![id] = [(IF rw[id].present THEN rw[id] ELSE [AbsentRow EXCEPT !.present = TRUE])
                           EXCEPT !.cached = TRUE]]

\* updatePhotoCache: UPDATE photos SET cached_path = ?, cached_at = ?,
\* cached_size_bytes = ? WHERE id = ?
updatePhotoCache(rw, id) ==
    IF rw[id].present THEN [rw EXCEPT ![id].cached = TRUE] ELSE rw

\* A retry loop that gives up one attempt early.
LastAttempt_Early(attempt) == attempt >= MAX_RETRIES - 1

\* if (attempt === maxRetries) throw error
LastAttempt(attempt) == attempt = MAX_RETRIES

DownloadJob(id) ==
    [kind |-> "download", pc |-> "provider", id |-> id, attempt |-> 1, todo |-> << >>,
     batch |-> {}, before |-> {}, foreign |-> {}]

\* The catch block of the retry loop (220-227): the last attempt rethrows,
\* any other one sleeps attempt * 1000 ms.
Caught(job) == [job EXCEPT !.pc = IF LastAttempt(job.attempt) THEN "failed" ELSE "sleep"]

Settled(js) == \A k \in 1..Len(js) : js[k].pc \in {"ok", "failed"}

Succeeded(js) == { js[k].id : k \in { n \in 1..Len(js) : js[n].pc = "ok" } }

Rejected(js) == { js[k].id : k \in { n \in 1..Len(js) : js[n].pc = "failed" } }

\* getPhotosToCache(5) has answered; downloadPhoto is called for every
\* photo of the batch and runs to its provider call (99-111, 143-155).
FetchStart(i) ==
    /\ TickAt(i, "fetchQuery")
    /\ LET b == Limit(Ordered(rows, Candidates(rows)), FETCH_BATCH)
           t == [ticks[i] EXCEPT !.batch = b]
       IN  /\ Proceed(i, t, IF b = << >> THEN "done" ELSE "download", cm)
           /\ jobs' = [k \in 1..Len(b) |-> DownloadJob(b[k])]
           /\ cstep' = [CacheWorking EXCEPT !.act = "FetchQuery", !.downloads = Range(b)]
    /\ UNCHANGED <<rows, ready, clock>>
    /\ UNCHANGED <<sortMode, tx, files, emitted, dstep, fixedSet, upVars, scanVars>>
    /\ UNCHANGED <<ctlVars, clsVars, syncVars, ordVars>>

\* provider.downloadPhoto has answered with a stream or rejected (155).
ProviderAnswer(k, ok) ==
    /\ JobAt(k, "download", "provider")
    /\ jobs' = [jobs EXCEPT ![k] = IF ok THEN [@ EXCEPT !.pc = "process"] ELSE Caught(@)]
    /\ cstep' = [CacheWorking EXCEPT !.act = "ProviderAnswer"]
    /\ UNCHANGED <<rows, cm, ticks, ready, clock>>
    /\ UNCHANGED <<sortMode, tx, files, emitted, dstep, fixedSet, upVars, scanVars>>
    /\ UNCHANGED <<ctlVars, clsVars, syncVars, ordVars>>

\* The stream was read to its end and resized, or one of the two failed
\* (164-190).
Processed(k, ok) ==
    /\ JobAt(k, "download", "process")
    /\ jobs' = [jobs EXCEPT ![k] = IF ok THEN [@ EXCEPT !.pc = "write"] ELSE Caught(@)]
    /\ cstep' = CacheWorking
    /\ UNCHANGED <<rows, cm, ticks, ready, clock>>
    /\ UNCHANGED <<sortMode, tx, files, emitted, dstep, fixedSet, upVars, scanVars>>
    /\ UNCHANGED <<ctlVars, clsVars, syncVars, ordVars>>

\* fs.promises.writeFile has written the file, or failed and left no
\* complete file (193).
Written(k, ok) ==
    /\ JobAt(k, "download", "write")
    /\ jobs' = [jobs EXCEPT ![k] = IF ok THEN [@ EXCEPT !.pc = "update"] ELSE Caught(@)]
    /\ files' = IF ok THEN files \cup {jobs[k].id} ELSE files \ {jobs[k].id}
    /\ cstep' = CacheWorking
    /\ UNCHANGED <<rows, cm, ticks, ready, clock>>
    /\ UNCHANGED <<sortMode, tx, emitted, dstep, fixedSet, upVars, scanVars>>
    /\ UNCHANGED <<ctlVars, clsVars, syncVars, ordVars>>

\* db.updatePhotoCache has answered (197-202): downloadPhoto returns, or
\* the statement failed.
Updated(k, ok) ==
    /\ JobAt(k, "download", "update")
    /\ IF ok
       THEN /\ rows' = updatePhotoCache(rows, jobs[k].id)
            /\ jobs' = [jobs EXCEPT ![k].pc = "ok"]
       ELSE /\ jobs' = [jobs EXCEPT ![k] = Caught(@)]
            /\ UNCHANGED rows
    /\ cstep' = [CacheWorking EXCEPT !.act = "Updated", !.downloads = {jobs[k].id}]
    /\ dstep' = DbStep(IF ok THEN "CacheUpdate" ELSE "CacheUpdateFailed", jobs[k].id, jobs[k])
    /\ UNCHANGED <<cm, ticks, ready, clock>>
    /\ UNCHANGED <<sortMode, tx, files, emitted, fixedSet, upVars, scanVars>>
    /\ UNCHANGED <<ctlVars, clsVars, syncVars, ordVars>>

\* The backoff sleep is over: the next attempt calls the provider (226, 151-155).
Backoff(k) ==
    /\ JobAt(k, "download", "sleep")
    /\ jobs' = [jobs EXCEPT ![k].attempt = @ + 1, ![k].pc = "provider"]
    /\ cstep' = CacheWorking
    /\ UNCHANGED <<rows, cm, ticks, ready, clock>>
    /\ UNCHANGED <<sortMode, tx, files, emitted, dstep, fixedSet, upVars, scanVars>>
    /\ UNCHANGED <<ctlVars, clsVars, syncVars, ordVars>>

\* Every downloadPhoto of the batch has settled: Promise.allSettled
\* answers, the failures are counted and the tick returns (109-135).
BatchSettled(i) ==
    /\ TickAt(i, "download")
    /\ Settled(jobs)
    /\ Proceed(i, ticks[i], "done", AccountFailures(cm, Cardinality(Rejected(jobs)), Len(jobs)))
    /\ jobs' = << >>
    /\ cstep' = [CacheWorking EXCEPT !.act = "Settled", !.downloads = Succeeded(jobs),
                                      !.failed = Rejected(jobs),
                                      !.before = cm.consecutiveFailures]
    /\ UNCHANGED <<rows, ready, clock>>
    /\ UNCHANGED <<sortMode, tx, files, emitted, dstep, fixedSet, upVars, scanVars>>
    /\ UNCHANGED <<ctlVars, clsVars, syncVars, ordVars>>

UncachedRow(id) == [CachedRow(id) EXCEPT !.cached = FALSE]

\* The catalog holds every photo, some of them cached with their files;
\* the manager has its provider.
DownloadInit ==
    /\ \E S \in SUBSET PhotoRows :
          /\ rows = [id \in PhotoRows |-> IF id \in S THEN CachedRow(id) ELSE UncachedRow(id)]
          /\ files = S
    /\ cm = [isRunning |-> FALSE, consecutiveFailures |-> 0, failedBatches |-> 0,
             provider |-> Handle]
    /\ ticks = << >> /\ ready = TRUE /\ clock = 0 /\ cstep = NoCacheStep
    /\ sortMode = "sequential" /\ tx = NoTx /\ jobs = << >> /\ emitted = << >>
    /\ dstep = NoDbStep /\ fixedSet = TRUE
    /\ CtlIdle /\ ClsIdle /\ SyncIdle /\ OrdIdle /\ UpIdle /\ ScanIdle

DownloadNext ==
    \/ TickFire
    \/ \E i \in 1..MaxTicks : TickSize(i)
    \/ \E i \in 1..MaxTicks : Cooldown(i)
    \/ \E i \in 1..MaxTicks : FetchStart(i)
    \/ \E k \in PhotoRows, ok \in BOOLEAN : ProviderAnswer(k, ok)
    \/ \E k \in PhotoRows, ok \in BOOLEAN : Processed(k, ok)
    \/ \E k \in PhotoRows, ok \in BOOLEAN : Written(k, ok)
    \/ \E k \in PhotoRows, ok \in BOOLEAN : Updated(k, ok)
    \/ \E k \in PhotoRows : Backoff(k)
    \/ \E i \in 1..MaxTicks : BatchSettled(i)
    \/ \E i \in 1..MaxTicks : TickError(i)
    \/ \E id \in PhotoRows : DeletePhoto(id)

SpecDownload == DownloadInit /\ [][DownloadNext]_vars

\* The tick body that awaits its downloads returns in this step.
BatchReturns == ticks # << >> /\ ticks[1].pc = "download" /\ ticks' = << >>

\* C32: when a tick's batch has settled the failure counter is one more
\* than before if every download failed and 0 if one succeeded; a download
\* that fails leaves the other downloads of the batch as they are, and the
\* photos whose download succeeded are cached.
C32_FailureAccounting ==
    /\ [][BatchReturns =>
            cm'.consecutiveFailures =
                IF Succeeded(jobs) = {} THEN cm.consecutiveFailures + 1 ELSE 0]_vars
    /\ [][\A k \in 1..Len(jobs) :
            (Len(jobs') = Len(jobs) /\ jobs'[k].pc = "failed" /\ jobs[k].pc # "failed")
            => \A m \in 1..Len(jobs) : m # k => jobs'[m] = jobs[m]]_vars
    /\ [](\A k \in 1..Len(jobs) :
            (jobs[k].pc = "ok" /\ rows[jobs[k].id].present) => rows[jobs[k].id].cached)

C32_Witness ==
    /\ cstep.act = "Settled" /\ cstep.failed # {} /\ cstep.downloads # {}
    /\ \A id \in cstep.downloads : rows[id].cached
    /\ cstep.before > 0 /\ cm.consecutiveFailures = 0

\* C33: a download calls the provider at most 3 times, once per attempt;
\* it goes on to the next attempt only after a failed one, never after a
\* success, and it fails only at its third attempt.  The photo of a failed
\* download is still uncached and is in the next fetch batch.
C33_DownloadRetries ==
    /\ [](\A k \in 1..Len(jobs) :
            /\ jobs[k].attempt \in 1..MAX_RETRIES
            /\ jobs[k].pc = "failed" => jobs[k].attempt = MAX_RETRIES)
    /\ [][\A k \in 1..Len(jobs) :
            Len(jobs') = Len(jobs) =>
                /\ jobs[k].pc \in {"ok", "failed"} =>
                      (jobs'[k].pc = jobs[k].pc /\ jobs'[k].attempt = jobs[k].attempt)
                /\ jobs'[k].attempt # jobs[k].attempt =>
                      (jobs[k].pc = "sleep" /\ jobs'[k].attempt = jobs[k].attempt + 1)
                /\ (jobs'[k].pc = "sleep" /\ jobs[k].pc # "sleep") =>
                      jobs[k].pc \in {"provider", "process", "write", "update"}]_vars
    /\ [][BatchReturns =>
            \A id \in Rejected(jobs) :
                rows'[id].present =>
                    /\ ~rows'[id].cached
                    /\ id \in Range(Limit(Ordered(rows', Candidates(rows')), FETCH_BATCH))]_vars

C33_Witness ==
    /\ Len(jobs) = 2
    /\ jobs[1].pc = "failed" /\ jobs[1].attempt = MAX_RETRIES
    /\ jobs[2].pc = "ok" /\ jobs[2].attempt = 2
    /\ ~rows[jobs[1].id].cached /\ rows[jobs[2].id].cached

\* C39: a photo deleted from the catalog is not put back by a download,
\* a download of a deleted photo that goes on marks no photo cached, and
\* when no tick is in progress no download is in flight.
C39_DeletedDuringDownload ==
    /\ [][\A id \in PhotoRows : ~rows[id].present => ~rows'[id].present]_vars
    /\ [][\A k \in 1..Len(jobs) :
            (~rows[jobs[k].id].present /\ Len(jobs') = Len(jobs) /\ jobs'[k].pc # jobs[k].pc)
            => Cached(rows') = Cached(rows)]_vars
    /\ [](ticks = << >> => jobs = << >>)

C39_Witness ==
    /\ dstep.act = "CacheUpdate" /\ dstep.id \in dstep.job.foreign
    /\ ~rows[dstep.id].present /\ ~rows[dstep.id].cached
    /\ ticks = << >> /\ jobs = << >>

(***************************************************************************)
(* The one connection shared by the syncs, the display timer and the cache *)
(* manager's downloads: a markPhotoViewed or an updatePhotoCache issued    *)
(* while a savePhotos transaction is open belongs to that transaction, and *)
(* its caller is told it succeeded as soon as the statement ran.           *)
(***************************************************************************)
\* A download of photo id ends: updatePhotoCache (CacheManager.js 197).
CacheAttach(id) ==
    /\ id \in Candidates(rows)
    /\ rows' = updatePhotoCache(rows, id)
    /\ files' = files \cup {id}
    /\ dstep' = DbStep("Attach", id, << >>)
    /\ UNCHANGED <<clock, sortMode, tx, jobs, emitted, fixedSet>>
    /\ UNCHANGED <<cm, ticks, ready, cstep>>
    /\ UNCHANGED <<ctlVars, clsVars, syncVars, ordVars, upVars, scanVars>>

SerialNext ==
    \/ SendStart
    \/ \E j \in 1..MaxJobs : SendEmit(j)
    \/ \E id \in PhotoRows : CacheAttach(id)
    \/ \E batch \in SUBSET PhotoRows : SaveBegin(batch)
    \/ \E j \in 1..MaxJobs : \E ok \in BOOLEAN : SavePhoto(j, ok)
    \/ \E j \in 1..MaxJobs : SaveCommit(j)
    \/ \E j \in 1..MaxJobs : SaveCatch(j)

SpecSerial == CatalogInit /\ [][SerialNext]_vars

\* The photos a finished savePhotos call was to insert and nobody else wrote.
Inserts(job) == OwnRows(job) \ job.before

\* C37 as stated: the end of a failed savePhotos leaves the cache state and
\* the last_viewed_at of every photo as they were, and a finished
\* savePhotos has inserted all of its new photos or none of them.
C37_Stated ==
    /\ [][(jobs' # jobs /\ dstep'.act = "SaveFailed") =>
            \A id \in PhotoRows :
                /\ rows'[id].cached = rows[id].cached
                /\ rows'[id].viewed = rows[id].viewed]_vars
    /\ [](dstep.act \in {"Saved", "SaveFailed"} =>
            \/ \A p \in Inserts(dstep.job) : rows[p].present
            \/ \A p \in Inserts(dstep.job) : ~rows[p].present)

\* The upsert statement leaves the cache state and the last_viewed_at of
\* every row as they are also when other callers' statements run between
\* the upserts of a batch.
UpsertFrame ==
    [][(jobs' # jobs /\ dstep'.act = "Save") =>
          \A id \in PhotoRows :
              rows[id].present => /\ rows'[id].present
                                  /\ rows'[id].cached = rows[id].cached
                                  /\ rows'[id].viewed = rows[id].viewed]_vars

====
